---------------------------- MODULE Spec2Model ----------------------------
(***************************************************************************)
(* LinkPad: the content codec (js/utils/compression.js), the HTML          *)
(* sanitizer (js/utils/sanitizer.js), debounce and isEmpty of              *)
(* js/utils/dom.js, and the editor application: its load path              *)
(* (loadFromHash, the hashchange listener), its save path (the input       *)
(* listener, the debounced save, saveToHash), copyLink, newNote and the     *)
(* slash menu with its commands.                                           *)
(*                                                                         *)
(* A JavaScript string is a sequence of UTF-16 code units.  The codec      *)
(* works on code units as integers and on bytes as integers 0..255; a      *)
(* token and a markup string are sequences of one-character strings.       *)
(***************************************************************************)
EXTENDS Integers, Sequences, FiniteSets, TLC

VARIABLES
    cText,      \* codec run: the argument of compress (code units)
    cPc,        \* codec run: "start", "compressed", "done"
    cToken,     \* codec run: the result of compress
    cOut,       \* codec run: the result of decompress
    cBytes,     \* codec run: the bytes decompress decoded from the token
    cStreams,   \* codec run: the CompressionStream and DecompressionStream objects created
    cTamper,    \* codec run: what happened to the token between compress and decompress
    sInput,     \* sanitizer run: the argument of sanitize (a JavaScript value)
    sPc,        \* sanitizer run: "start", "done", "again"
    sOut,       \* sanitizer run: the result of sanitize(sInput)
    sOut2,      \* sanitizer run: the result of sanitize on that result
    ePc,        \* editor: "boot", "ready", "unsupported"
    supported,  \* editor: CompressionStream and DecompressionStream exist
    hash,       \* editor: window.location.hash without its leading "#"
    editor,     \* editor: the markup last assigned to editor.innerHTML
    loads,      \* editor: the fragments of the loadFromHash calls that await decompress
    statusText, \* editor: the text of the status indicator
    toast,      \* editor: the last toast shown
    lastLoad,   \* history: the fragment and the markup of the last write of loadFromHash
    historyLen, \* editor: the number of entries of the session history
    isSaving,   \* editor: state.isSaving
    hasUnsavedChanges,  \* editor: state.hasUnsavedChanges
    lastSaved,  \* editor: state.lastSaved, "null" or "date"
    timer,      \* editor: the timeout of debouncedSave is pending
    savePending,    \* editor: the content of the saveToHash call that awaits compress, if any
    saveOutcome,    \* history: how the last saveToHash call ended
    copyCall,   \* editor: the copyLink call last made: where it is, and what it copied
    fresh,      \* history: newNote has run and no input event has come since
    calls,      \* concurrent codec calls: the local variables of each call made
    dTimeoutId, \* debounce: timeoutId of the closure, 0 for null
    dTimers,    \* debounce: the timeouts pending in the host
    dLog,       \* history: the calls of the debounced function and of fn, in order
    slashMenuOpen,  \* slash menu: state.slashMenuOpen
    slashTriggered, \* slash menu: state.slashTriggered
    showTimer,  \* slash menu: the timeout that calls showSlashMenu is pending
    checkTimer, \* slash menu: the timeout that looks for the "/" after Backspace is pending
    selection,  \* slash menu: "caret" or "text" in the editor, or "outside" it
    caretText,  \* slash menu: the text of the edited block, the caret at its end
    block       \* slash menu: the command that formatted the edited block

codecVars == <<cText, cPc, cToken, cOut, cBytes, cStreams, cTamper>>

sanVars == <<sInput, sPc, sOut, sOut2>>

saveVars == <<isSaving, hasUnsavedChanges, lastSaved, timer, savePending, saveOutcome,
              copyCall, fresh>>

concVars == <<calls>>

debVars == <<dTimeoutId, dTimers, dLog>>

slashVars == <<slashMenuOpen, slashTriggered, showTimer, checkTimer, selection, caretText, block>>

editorVars == <<ePc, supported, hash, editor, loads, statusText, toast, lastLoad,
                historyLen, isSaving, hasUnsavedChanges, lastSaved, timer, savePending,
                saveOutcome, copyCall, fresh>>

vars == <<cText, cPc, cToken, cOut, cBytes, cStreams, cTamper, sInput, sPc, sOut, sOut2,
          ePc, supported, hash, editor, loads, statusText, toast, lastLoad,
          historyLen, isSaving, hasUnsavedChanges, lastSaved, timer, savePending,
          saveOutcome, copyCall, fresh, calls, dTimeoutId, dTimers, dLog,
          slashMenuOpen, slashTriggered, showTimer, checkTimer, selection, caretText, block>>

-----------------------------------------------------------------------------
(* Bounds of the model                                                     *)

MaxTextLen == 3     \* longest text given to compress, in code units

MaxPieces == 2      \* most markup pieces joined into an input of sanitize

-----------------------------------------------------------------------------
(* Results of an async function: a fulfilled value or a rejection          *)

Ok(v) == [ok |-> TRUE, val |-> v]

Err(m) == [ok |-> FALSE, err |-> m]

-----------------------------------------------------------------------------
(* Sequence helpers                                                        *)

RECURSIVE Flatten(_)
Flatten(ss) == IF ss = <<>> THEN <<>> ELSE Head(ss) \o Flatten(Tail(ss))

Last(s) == s[Len(s)]

Front(s) == SubSeq(s, 1, Len(s) - 1)

-----------------------------------------------------------------------------
(* TextEncoder.encode: UTF-16 code units to UTF-8 bytes.  A surrogate that *)
(* is not part of a pair is encoded as U+FFFD (65533).                     *)

IsHighSurrogate(u) == u >= 55296 /\ u <= 56319

IsLowSurrogate(u) == u >= 56320 /\ u <= 57343

Utf8OfCodePoint(cp) ==
    IF cp < 128 THEN <<cp>>
    ELSE IF cp < 2048 THEN <<192 + (cp \div 64), 128 + (cp % 64)>>
    ELSE IF cp < 65536 THEN
        <<224 + (cp \div 4096), 128 + ((cp \div 64) % 64), 128 + (cp % 64)>>
    ELSE <<240 + (cp \div 262144), 128 + ((cp \div 4096) % 64),
           128 + ((cp \div 64) % 64), 128 + (cp % 64)>>

\* the string is encoded by halves; a half never ends inside a surrogate pair
RECURSIVE TextEncode(_)
TextEncode(s) ==
    IF s = <<>> THEN <<>>
    ELSE IF Len(s) = 1 THEN
        Utf8OfCodePoint(IF IsHighSurrogate(s[1]) \/ IsLowSurrogate(s[1])
                        THEN 65533 ELSE s[1])
    ELSE IF Len(s) = 2 /\ IsHighSurrogate(s[1]) /\ IsLowSurrogate(s[2]) THEN
        Utf8OfCodePoint(65536 + (s[1] - 55296) * 1024 + (s[2] - 56320))
    ELSE LET half == Len(s) \div 2
             cut == IF IsHighSurrogate(s[half]) /\ IsLowSurrogate(s[half + 1])
                    THEN half + 1 ELSE half
         IN TextEncode(SubSeq(s, 1, cut)) \o TextEncode(SubSeq(s, cut + 1, Len(s)))

-----------------------------------------------------------------------------
(* Response.text(): UTF-8 decode.  A leading byte order mark EF BB BF is   *)
(* removed, an ill-formed sequence decodes to U+FFFD, a code point above   *)
(* U+FFFF becomes a surrogate pair.                                        *)

IsCont(b) == b >= 128 /\ b <= 191

UnitsOfCodePoint(cp) ==
    IF cp < 65536 THEN <<cp>>
    ELSE <<55296 + ((cp - 65536) \div 1024), 56320 + ((cp - 65536) % 1024)>>

\* the range the second byte of a sequence must lie in, by lead byte
SecondLo(b) == IF b = 224 THEN 160 ELSE IF b = 240 THEN 144 ELSE 128

SecondHi(b) == IF b = 237 THEN 159 ELSE IF b = 244 THEN 143 ELSE 191

\* the bytes i..n of b, decoded one sequence after the other
RECURSIVE Utf8DecodeFrom(_, _, _)
Utf8DecodeFrom(b, i, n) ==
    IF i > n THEN <<>>
    ELSE LET b1 == b[i]
             has(k) == i + k <= n
             second == has(1) /\ b[i+1] >= SecondLo(b1) /\ b[i+1] <= SecondHi(b1)
         IN
         IF b1 < 128 THEN <<b1>> \o Utf8DecodeFrom(b, i + 1, n)
         ELSE IF b1 >= 194 /\ b1 <= 223 THEN
            IF second
            THEN <<(b1 - 192) * 64 + (b[i+1] - 128)>> \o Utf8DecodeFrom(b, i + 2, n)
            ELSE <<65533>> \o Utf8DecodeFrom(b, i + 1, n)
         ELSE IF b1 >= 224 /\ b1 <= 239 THEN
            IF ~second THEN <<65533>> \o Utf8DecodeFrom(b, i + 1, n)
            ELSE IF ~(has(2) /\ IsCont(b[i+2]))
            THEN <<65533>> \o Utf8DecodeFrom(b, i + 2, n)
            ELSE <<(b1 - 224) * 4096 + (b[i+1] - 128) * 64 + (b[i+2] - 128)>>
                     \o Utf8DecodeFrom(b, i + 3, n)
         ELSE IF b1 >= 240 /\ b1 <= 244 THEN
            IF ~second THEN <<65533>> \o Utf8DecodeFrom(b, i + 1, n)
            ELSE IF ~(has(2) /\ IsCont(b[i+2]))
            THEN <<65533>> \o Utf8DecodeFrom(b, i + 2, n)
            ELSE IF ~(has(3) /\ IsCont(b[i+3]))
            THEN <<65533>> \o Utf8DecodeFrom(b, i + 3, n)
            ELSE UnitsOfCodePoint((b1 - 240) * 262144 + (b[i+1] - 128) * 4096
                                    + (b[i+2] - 128) * 64 + (b[i+3] - 128))
                     \o Utf8DecodeFrom(b, i + 4, n)
         ELSE <<65533>> \o Utf8DecodeFrom(b, i + 1, n)

\* the bytes i..n of b, decoded by parts: an ASCII byte ends whatever
\* sequence precedes it and decodes to itself, so the decoding of the
\* whole is the decoding of the parts on either side of it
RECURSIVE Utf8Decode(_, _, _)
Utf8Decode(b, i, n) ==
    LET mid == (i + n) \div 2
        ascii == {k \in i..n : b[k] < 128}
        dist(k) == IF k < mid THEN mid - k ELSE k - mid
    IN  IF n - i < 8 \/ ascii = {} THEN Utf8DecodeFrom(b, i, n)
        ELSE LET m == CHOOSE k \in ascii : \A j \in ascii : dist(k) <= dist(j)
             IN Utf8Decode(b, i, m - 1) \o <<b[m]>> \o Utf8Decode(b, m + 1, n)

HasBom(b) == Len(b) >= 3 /\ b[1] = 239 /\ b[2] = 187 /\ b[3] = 191

ResponseText(b) == Utf8Decode(b, IF HasBom(b) THEN 4 ELSE 1, Len(b))

-----------------------------------------------------------------------------
(* CompressionStream('gzip') and DecompressionStream('gzip'): the host's   *)
(* gzip container.  The member is the magic bytes 1F 8B and the method 08, *)
(* the payload, a one-byte check value of the payload and its length       *)
(* modulo 256.  The decompression stream rejects a member whose header,    *)
(* check value or length is wrong.                                         *)

GzipHeader == <<31, 139, 8>>

\* the check value runs acc -> (acc * 31 + byte + 1) % 256 over the
\* payload.  Over the bytes i..n that is acc -> (acc * mul + add) % 256,
\* and CheckRange computes <<mul, add>> from the two halves of the range.
RECURSIVE CheckRange(_, _, _)
CheckRange(b, i, n) ==
    IF i > n THEN <<1, 0>>
    ELSE IF i = n THEN <<31, b[i] + 1>>
    ELSE LET mid == (i + n) \div 2
             l == CheckRange(b, i, mid)
             r == CheckRange(b, mid + 1, n)
         IN <<(l[1] * r[1]) % 256, (l[2] * r[1] + r[2]) % 256>>

CheckValue(b, acc) ==
    LET run == CheckRange(b, 1, Len(b)) IN (acc * run[1] + run[2]) % 256

GzipCompress(b) == GzipHeader \o b \o <<CheckValue(b, 0), Len(b) % 256>>

GzipDecompress(z) ==
    IF Len(z) < Len(GzipHeader) + 2 \/ SubSeq(z, 1, Len(GzipHeader)) # GzipHeader
    THEN Err("TypeError")
    ELSE LET payload == SubSeq(z, Len(GzipHeader) + 1, Len(z) - 2)
         IN IF z[Len(z) - 1] = CheckValue(payload, 0) /\ z[Len(z)] = Len(payload) % 256
            THEN Ok(payload)
            ELSE Err("TypeError")

-----------------------------------------------------------------------------
(* btoa and atob                                                           *)

B64 == <<"A","B","C","D","E","F","G","H","I","J","K","L","M","N","O","P",
         "Q","R","S","T","U","V","W","X","Y","Z","a","b","c","d","e","f",
         "g","h","i","j","k","l","m","n","o","p","q","r","s","t","u","v",
         "w","x","y","z","0","1","2","3","4","5","6","7","8","9","+","/">>

B64Chars == {B64[k] : k \in 1..64}

B64Val == [c \in B64Chars |-> (CHOOSE k \in 1..64 : B64[k] = c) - 1]

RECURSIVE Btoa(_)
Btoa(b) ==
    IF b = <<>> THEN <<>>
    ELSE IF Len(b) = 1 THEN
        <<B64[(b[1] \div 4) + 1], B64[(b[1] % 4) * 16 + 1], "=", "=">>
    ELSE IF Len(b) = 2 THEN
        <<B64[(b[1] \div 4) + 1], B64[(b[1] % 4) * 16 + (b[2] \div 16) + 1],
          B64[(b[2] % 16) * 4 + 1], "=">>
    ELSE IF Len(b) = 3 THEN
        <<B64[(b[1] \div 4) + 1], B64[(b[1] % 4) * 16 + (b[2] \div 16) + 1],
          B64[(b[2] % 16) * 4 + (b[3] \div 64) + 1], B64[(b[3] % 64) + 1]>>
    ELSE LET cut == 3 * (((Len(b) + 2) \div 3) \div 2)
         IN Btoa(SubSeq(b, 1, cut)) \o Btoa(SubSeq(b, cut + 1, Len(b)))

RECURSIVE AtobGroups(_)
AtobGroups(s) ==
    LET v(k) == B64Val[s[k]] IN
    IF Len(s) < 2 THEN <<>>
    ELSE IF Len(s) = 2 THEN <<v(1) * 4 + (v(2) \div 16)>>
    ELSE IF Len(s) = 3 THEN
        <<v(1) * 4 + (v(2) \div 16), (v(2) % 16) * 16 + (v(3) \div 4)>>
    ELSE IF Len(s) = 4 THEN
        <<v(1) * 4 + (v(2) \div 16), (v(2) % 16) * 16 + (v(3) \div 4),
          (v(3) % 4) * 64 + v(4)>>
    ELSE LET cut == 4 * (((Len(s) + 3) \div 4) \div 2)
         IN AtobGroups(SubSeq(s, 1, cut)) \o AtobGroups(SubSeq(s, cut + 1, Len(s)))

AsciiWhitespace == {"\t", "\n", "\f", "\r", " "}

NotWhitespace(c) == c \notin AsciiWhitespace

\* atob: ASCII whitespace is removed first; then, when the length is a
\* multiple of 4, up to two trailing "=" are dropped; what is left must not
\* have length 1 modulo 4 and must hold alphabet characters only, otherwise
\* InvalidCharacterError is thrown.
AtobStripped(s) ==
    LET n == Len(s)
        drop == IF n % 4 # 0 \/ n = 0 THEN 0
                ELSE IF s[n] = "=" /\ s[n-1] = "=" THEN 2
                ELSE IF s[n] = "=" THEN 1 ELSE 0
        d == SubSeq(s, 1, n - drop)
    IN IF Len(d) % 4 = 1 \/ \E k \in 1..Len(d) : d[k] \notin B64Chars
       THEN Err("InvalidCharacterError")
       ELSE Ok(AtobGroups(d))

Atob(data) == AtobStripped(SelectSeq(data, NotWhitespace))

-----------------------------------------------------------------------------
(* compression.js                                                          *)

ReplaceChar_None(s, from, to) == s

ReplaceChar(s, from, to) == [k \in 1..Len(s) |-> IF s[k] = from THEN to ELSE s[k]]

RECURSIVE StripPadding(_)
StripPadding(s) ==
    IF s # <<>> /\ Last(s) = "=" THEN StripPadding(Front(s)) ELSE s

RECURSIVE PadToFour(_)
PadToFour(s) == IF Len(s) % 4 # 0 THEN PadToFour(Append(s, "=")) ELSE s

arrayBufferToBase64(bytes) == Btoa(bytes)

base64ToArrayBuffer(base64) == Atob(base64)

\* if (!text) return ''
CompressGuard_Never(text) == FALSE

CompressGuard(text) == text = <<>>

\* the CompressionStream objects a call of compress creates
CompressStreams(text) == IF CompressGuard(text) THEN 0 ELSE 1

compress(text) ==
    IF CompressGuard(text) THEN Ok(<<>>)
    ELSE LET data == TextEncode(text)
             compressedBytes == GzipCompress(data)
             base64 == arrayBufferToBase64(compressedBytes)
         IN Ok(StripPadding(ReplaceChar(ReplaceChar(base64, "+", "-"), "/", "_")))

\* if (!base64) return ''
DecompressGuard(base64) == base64 = <<>>

\* the standard alphabet restored and the padding added
StandardBase64(base64) ==
    PadToFour(ReplaceChar(ReplaceChar(base64, "-", "+"), "_", "/"))

\* the bytes decompress decodes from the token
DecodedBytes(base64) == base64ToArrayBuffer(StandardBase64(base64))

\* the DecompressionStream objects a call of decompress creates: none when
\* the guard returns or atob throws
DecompressStreams(base64) ==
    IF DecompressGuard(base64) \/ ~DecodedBytes(base64).ok THEN 0 ELSE 1

decompress(base64) ==
    IF DecompressGuard(base64) THEN Ok(<<>>)
    ELSE LET compressedBytes == DecodedBytes(base64)
             stream == GzipDecompress(compressedBytes.val)
         IN IF ~compressedBytes.ok THEN Err("Failed to decompress content")
            ELSE IF ~stream.ok THEN Err("Failed to decompress content")
            ELSE Ok(ResponseText(stream.val))

-----------------------------------------------------------------------------
(* Characters of a markup string                                           *)

LowerAlpha == <<"a","b","c","d","e","f","g","h","i","j","k","l","m",
                "n","o","p","q","r","s","t","u","v","w","x","y","z">>

UpperAlpha == <<"A","B","C","D","E","F","G","H","I","J","K","L","M",
                "N","O","P","Q","R","S","T","U","V","W","X","Y","Z">>

LowerSet == {LowerAlpha[k] : k \in 1..26}

UpperSet == {UpperAlpha[k] : k \in 1..26}

DigitSet == {"0","1","2","3","4","5","6","7","8","9"}

LowerOf == [c \in UpperSet |-> LowerAlpha[CHOOSE k \in 1..26 : UpperAlpha[k] = c]]

ToLower(c) == IF c \in UpperSet THEN LowerOf[c] ELSE c

LowerCase(s) == [k \in 1..Len(s) |-> ToLower(s[k])]

IsAlpha(c) == c \in LowerSet \cup UpperSet

\* the regular expression classes \w and \s
IsWord(c) == c \in LowerSet \cup UpperSet \cup DigitSet \cup {"_"}

IsSpace(c) == c \in {" ", "\t", "\n", "\r", "\f"}

\* the index of the least element of a non-empty set of integers

\* lit (in lower case) occurs in s at index i, in any letter case
MatchesAt(s, i, lit) ==
    /\ i >= 1
    /\ i + Len(lit) - 1 <= Len(s)
    /\ \A k \in 1..Len(lit) : ToLower(s[i + k - 1]) = lit[k]

Contains(s, lit) == \E i \in 1..Len(s) : MatchesAt(s, i, lit)

\* The first index j in lo..hi with (s[j] \in set) = member, or 0.  The
\* searches halve the range instead of stepping through it, which keeps
\* the evaluation shallow on long strings.
RECURSIVE FirstWhere(_, _, _, _, _)
FirstWhere(s, lo, hi, set, member) ==
    IF lo > hi THEN 0
    ELSE IF lo = hi THEN (IF (s[lo] \in set) = member THEN lo ELSE 0)
    ELSE LET mid == (lo + hi) \div 2
             left == FirstWhere(s, lo, mid, set, member)
         IN IF left # 0 THEN left ELSE FirstWhere(s, mid + 1, hi, set, member)

\* the first index >= i of s with a character in set (not in set), or
\* Len(s) + 1
IndexOfAny(s, i, set) ==
    LET j == FirstWhere(s, i, Len(s), set, TRUE) IN IF j = 0 THEN Len(s) + 1 ELSE j

IndexOfNone(s, i, set) ==
    LET j == FirstWhere(s, i, Len(s), set, FALSE) IN IF j = 0 THEN Len(s) + 1 ELSE j

WordChars == LowerSet \cup UpperSet \cup DigitSet \cup {"_"}

SpaceChars == {" ", "\t", "\n", "\r", "\f"}

\* the first index in lo..hi at which lit occurs, or 0
RECURSIVE FirstMatch(_, _, _, _)
FirstMatch(s, lo, hi, lit) ==
    IF lo > hi THEN 0
    ELSE IF lo = hi THEN (IF MatchesAt(s, lo, lit) THEN lo ELSE 0)
    ELSE LET mid == (lo + hi) \div 2
             left == FirstMatch(s, lo, mid, lit)
         IN IF left # 0 THEN left ELSE FirstMatch(s, mid + 1, hi, lit)

-----------------------------------------------------------------------------
(* sanitizer.js: ALLOWED_TAGS, ALLOWED_ATTRIBUTES, DANGEROUS_PATTERNS      *)

ALLOWED_TAGS ==
    { <<"p">>, <<"b","r">>, <<"d","i","v">>, <<"s","p","a","n">>, <<"b">>,
      <<"s","t","r","o","n","g">>, <<"i">>, <<"e","m">>, <<"u">>,
      <<"h","1">>, <<"h","2">>, <<"h","3">>, <<"u","l">>, <<"o","l">>,
      <<"l","i">>, <<"b","l","o","c","k","q","u","o","t","e">> }

\* ALLOWED_ATTRIBUTES[tagName] || []: the object has no key
ALLOWED_ATTRIBUTES(tagName) == <<>>

ScriptOpen == <<"<","s","c","r","i","p","t">>

ScriptClose == <<"<","/","s","c","r","i","p","t",">">>

JavascriptScheme == <<"j","a","v","a","s","c","r","i","p","t",":">>

DataScheme == <<"d","a","t","a",":">>

VbscriptScheme == <<"v","b","s","c","r","i","p","t",":">>

\* the first index >= i at which lit occurs, or 0
FindFrom(s, i, lit) == FirstMatch(s, i, Len(s) - Len(lit) + 1, lit)

\* /<script\b[^<]*(?:(?!<\/script>)<[^<]*)*<\/script>/gi at index i: the
\* index of the last character of the match, or 0.  The match runs from
\* "<script" at a word boundary to the first "</script>" after it.
ScriptMatchEnd(s, i) ==
    IF ~MatchesAt(s, i, ScriptOpen) THEN 0
    ELSE IF i + 7 <= Len(s) /\ IsWord(s[i + 7]) THEN 0
    ELSE LET j == FindFrom(s, i + 7, ScriptClose)
         IN IF j = 0 THEN 0 ELSE j + Len(ScriptClose) - 1

\* /on\w+\s*=/gi at index i
OnHandlerMatchEnd(s, i) ==
    IF ~MatchesAt(s, i, <<"o","n">>) THEN 0
    ELSE LET w == IndexOfNone(s, i + 2, WordChars)
             e == IndexOfNone(s, w, SpaceChars)
         IN IF w > i + 2 /\ e <= Len(s) /\ s[e] = "=" THEN e ELSE 0

LiteralMatchEnd(s, i, lit) == IF MatchesAt(s, i, lit) THEN i + Len(lit) - 1 ELSE 0

\* DANGEROUS_PATTERNS[k] at index i: the index of the last character of the
\* match that starts at i, or 0
PatternMatchEnd(k, s, i) ==
    CASE k = 1 -> ScriptMatchEnd(s, i)
      [] k = 2 -> LiteralMatchEnd(s, i, JavascriptScheme)
      [] k = 3 -> OnHandlerMatchEnd(s, i)
      [] k = 4 -> LiteralMatchEnd(s, i, DataScheme)
      [] k = 5 -> LiteralMatchEnd(s, i, VbscriptScheme)

NumPatterns == 5

\* the first index in lo..hi at which DANGEROUS_PATTERNS[k] matches, or 0
RECURSIVE FirstPatternMatch(_, _, _, _)
FirstPatternMatch(k, s, lo, hi) ==
    IF lo > hi THEN 0
    ELSE IF lo = hi THEN (IF PatternMatchEnd(k, s, lo) # 0 THEN lo ELSE 0)
    ELSE LET mid == (lo + hi) \div 2
             left == FirstPatternMatch(k, s, lo, mid)
         IN IF left # 0 THEN left ELSE FirstPatternMatch(k, s, mid + 1, hi)

\* cleaned.replace(pattern, ''): every match, left to right, the search
\* resuming after the match
RECURSIVE ReplaceFrom(_, _, _)
ReplaceFrom(k, s, i) ==
    LET j == FirstPatternMatch(k, s, i, Len(s))
    IN IF j = 0 THEN SubSeq(s, i, Len(s))
       ELSE SubSeq(s, i, j - 1) \o ReplaceFrom(k, s, PatternMatchEnd(k, s, j) + 1)

RECURSIVE RemovePatterns(_, _)
RemovePatterns(s, k) ==
    IF k > NumPatterns THEN s ELSE RemovePatterns(ReplaceFrom(k, s, 1), k + 1)

\* the first pass of sanitize
PreFilter(html) == RemovePatterns(html, 1)

-----------------------------------------------------------------------------
(* DOMParser.parseFromString(cleaned, 'text/html'), first half: the HTML   *)
(* tokenizer.  A token is a run of text, a start tag (name in lower case,    *)
(* attributes) or an end tag; comments produce no token, as cleanNode      *)
(* skips comment nodes.                                                    *)

TextToken(data) == [t |-> "text", data |-> data]

StartToken(name, attrs) == [t |-> "start", name |-> name, attrs |-> attrs]

EndToken(name) == [t |-> "end", name |-> name]

Str_script == <<"s","c","r","i","p","t">>

Str_style == <<"s","t","y","l","e">>

Str_title == <<"t","i","t","l","e">>

Str_textarea == <<"t","e","x","t","a","r","e","a">>

\* elements whose content the tokenizer reads as text up to their end tag
RawTextTags == {Str_script, Str_style}

RcdataTags == {Str_title, Str_textarea}

\* named character references of text: &amp; &lt; &gt; &quot; (and their
\* upper-case forms), the semicolon optional
CharRefNames ==
    << [name |-> <<"a","m","p">>, c |-> "&"], [name |-> <<"l","t">>, c |-> "<"],
       [name |-> <<"g","t">>, c |-> ">"], [name |-> <<"q","u","o","t">>, c |-> "\""],
       [name |-> <<"A","M","P">>, c |-> "&"], [name |-> <<"L","T">>, c |-> "<"],
       [name |-> <<"G","T">>, c |-> ">"], [name |-> <<"Q","U","O","T">>, c |-> "\""] >>

\* the reference at index i (s[i] = "&"): [c, next], next = 0 when there
\* is none
CharRefAt(s, i) ==
    LET hits == {k \in 1..Len(CharRefNames) :
                    /\ i + Len(CharRefNames[k].name) <= Len(s)
                    /\ SubSeq(s, i + 1, i + Len(CharRefNames[k].name))
                           = CharRefNames[k].name}
    IN IF hits = {} THEN [c |-> "&", next |-> 0]
       ELSE LET k == CHOOSE h \in hits : TRUE
                e == i + Len(CharRefNames[k].name) + 1
            IN [c |-> CharRefNames[k].c,
                next |-> IF e <= Len(s) /\ s[e] = ";" THEN e + 1 ELSE e]

\* s from index i with its character references decoded
RECURSIVE DecodeRefs(_, _)
DecodeRefs(s, i) ==
    LET j == IndexOfAny(s, i, {"&"})
    IN IF j > Len(s) THEN SubSeq(s, i, Len(s))
       ELSE LET r == CharRefAt(s, j)
            IN IF r.next = 0 THEN SubSeq(s, i, j) \o DecodeRefs(s, j + 1)
               ELSE SubSeq(s, i, j - 1) \o <<r.c>> \o DecodeRefs(s, r.next)

\* the index after a tag name that starts at i
TagNameEnd(s, i) == IndexOfAny(s, i, SpaceChars \cup {"/", ">"})

\* an attribute is kept unless the tag already has one of that name
AddAttr(attrs, nm, val) ==
    IF \E k \in 1..Len(attrs) : attrs[k].name = nm THEN attrs
    ELSE Append(attrs, [name |-> nm, value |-> val])

EofInTag == [gt |-> 0, attrs |-> <<>>]

\* The attribute states of the tokenizer, from index i in state st to the
\* ">" that ends the tag: [gt, attrs], gt = 0 when the input ends inside
\* the tag.  nm is the name of the attribute being read.  Attribute values
\* are kept as written.
RECURSIVE ScanAttrs(_, _, _, _, _)
ScanAttrs(s, i, st, attrs, nm) ==
    CASE st = "before" ->
            LET j == IndexOfNone(s, i, SpaceChars)
                e == IndexOfAny(s, j + 1, SpaceChars \cup {"/", ">", "="})
                name == LowerCase(SubSeq(s, j, e - 1))
            IN IF j > Len(s) THEN EofInTag
               ELSE IF s[j] = "/" THEN ScanAttrs(s, j + 1, "selfClose", attrs, <<>>)
               ELSE IF s[j] = ">" THEN [gt |-> j, attrs |-> attrs]
               ELSE IF e > Len(s) THEN EofInTag
               ELSE IF s[e] = "=" THEN ScanAttrs(s, e + 1, "beforeValue", attrs, name)
               ELSE IF s[e] = ">" THEN [gt |-> e, attrs |-> AddAttr(attrs, name, <<>>)]
               ELSE IF s[e] = "/"
               THEN ScanAttrs(s, e + 1, "selfClose", AddAttr(attrs, name, <<>>), <<>>)
               ELSE ScanAttrs(s, e + 1, "afterName", attrs, name)
      [] st = "afterName" ->
            LET j == IndexOfNone(s, i, SpaceChars)
            IN IF j > Len(s) THEN EofInTag
               ELSE IF s[j] = "=" THEN ScanAttrs(s, j + 1, "beforeValue", attrs, nm)
               ELSE IF s[j] = ">" THEN [gt |-> j, attrs |-> AddAttr(attrs, nm, <<>>)]
               ELSE IF s[j] = "/"
               THEN ScanAttrs(s, j + 1, "selfClose", AddAttr(attrs, nm, <<>>), <<>>)
               ELSE ScanAttrs(s, j, "before", AddAttr(attrs, nm, <<>>), <<>>)
      [] st = "beforeValue" ->
            LET j == IndexOfNone(s, i, SpaceChars)
                q == IndexOfAny(s, j + 1, {s[j]})
                e == IndexOfAny(s, j, SpaceChars \cup {">"})
            IN IF j > Len(s) THEN EofInTag
               ELSE IF s[j] \in {"\"", "'"} THEN
                   IF q > Len(s) THEN EofInTag
                   ELSE ScanAttrs(s, q + 1, "afterQ",
                                  AddAttr(attrs, nm, SubSeq(s, j + 1, q - 1)), <<>>)
               ELSE IF s[j] = ">" THEN [gt |-> j, attrs |-> AddAttr(attrs, nm, <<>>)]
               ELSE IF e > Len(s) THEN EofInTag
               ELSE IF s[e] = ">"
               THEN [gt |-> e, attrs |-> AddAttr(attrs, nm, SubSeq(s, j, e - 1))]
               ELSE ScanAttrs(s, e + 1, "before",
                              AddAttr(attrs, nm, SubSeq(s, j, e - 1)), <<>>)
      [] st = "afterQ" ->
            IF i > Len(s) THEN EofInTag
            ELSE IF IsSpace(s[i]) THEN ScanAttrs(s, i + 1, "before", attrs, <<>>)
            ELSE IF s[i] = "/" THEN ScanAttrs(s, i + 1, "selfClose", attrs, <<>>)
            ELSE IF s[i] = ">" THEN [gt |-> i, attrs |-> attrs]
            ELSE ScanAttrs(s, i, "before", attrs, <<>>)
      [] st = "selfClose" ->
            IF i > Len(s) THEN EofInTag
            ELSE IF s[i] = ">" THEN [gt |-> i, attrs |-> attrs]
            ELSE ScanAttrs(s, i, "before", attrs, <<>>)

\* an end tag of element `name` starts at index j: "</name" followed by a
\* space, "/" or ">"
IsRawTextEnd(s, j, name) ==
    /\ MatchesAt(s, j, <<"<", "/">> \o name)
    /\ j + Len(name) + 2 <= Len(s)
    /\ (IsSpace(s[j + Len(name) + 2]) \/ s[j + Len(name) + 2] \in {"/", ">"})

RECURSIVE FirstRawTextEnd(_, _, _, _)
FirstRawTextEnd(s, lo, hi, name) ==
    IF lo > hi THEN 0
    ELSE IF lo = hi THEN (IF IsRawTextEnd(s, lo, name) THEN lo ELSE 0)
    ELSE LET mid == (lo + hi) \div 2
             left == FirstRawTextEnd(s, lo, mid, name)
         IN IF left # 0 THEN left ELSE FirstRawTextEnd(s, mid + 1, hi, name)

\* the index of the end tag that closes the raw text of element `name`
\* that starts at i, or Len(s) + 1
RawTextEnd(s, i, name) ==
    LET j == FirstRawTextEnd(s, i, Len(s), name) IN IF j = 0 THEN Len(s) + 1 ELSE j

\* the raw text s[i..j-1] as a token, character references decoded when
\* refs is TRUE
RawTextToken(s, i, j, refs) ==
    IF i >= j THEN <<>>
    ELSE IF refs THEN <<TextToken(DecodeRefs(SubSeq(s, i, j - 1), 1))>>
    ELSE <<TextToken(SubSeq(s, i, j - 1))>>

\* the index after the comment that starts with "<!--" at i
CommentEnd(s, i) ==
    IF MatchesAt(s, i + 4, <<">">>) THEN i + 5
    ELSE IF MatchesAt(s, i + 4, <<"-", ">">>) THEN i + 6
    ELSE LET j == FindFrom(s, i + 4, <<"-", "-", ">">>)
         IN IF j = 0 THEN Len(s) + 1 ELSE j + 3

\* the index after a bogus comment, which ends at the first ">" from i
BogusCommentEnd(s, i) == IndexOfAny(s, i, {">"}) + 1

RECURSIVE Tokenize(_, _)
Tokenize(s, i) ==
    IF i > Len(s) THEN <<>>
    ELSE IF s[i] = "&" THEN
        LET r == CharRefAt(s, i)
        IN IF r.next = 0 THEN <<TextToken(<<"&">>)>> \o Tokenize(s, i + 1)
           ELSE <<TextToken(<<r.c>>)>> \o Tokenize(s, r.next)
    ELSE IF s[i] # "<" THEN
        LET j == IndexOfAny(s, i, {"<", "&"})
        IN <<TextToken(SubSeq(s, i, j - 1))>> \o Tokenize(s, j)
    ELSE IF i + 1 <= Len(s) /\ IsAlpha(s[i + 1]) THEN
        LET e == TagNameEnd(s, i + 1)
            name == LowerCase(SubSeq(s, i + 1, e - 1))
            scan == ScanAttrs(s, e, "before", <<>>, <<>>)
        IN IF scan.gt = 0 THEN <<>>
           ELSE IF name \in RawTextTags \cup RcdataTags THEN
               LET j == RawTextEnd(s, scan.gt + 1, name)
               IN <<StartToken(name, scan.attrs)>>
                    \o RawTextToken(s, scan.gt + 1, j, name \in RcdataTags)
                    \o Tokenize(s, j)
           ELSE <<StartToken(name, scan.attrs)>> \o Tokenize(s, scan.gt + 1)
    ELSE IF i + 2 <= Len(s) /\ s[i + 1] = "/" /\ IsAlpha(s[i + 2]) THEN
        LET e == TagNameEnd(s, i + 2)
            name == LowerCase(SubSeq(s, i + 2, e - 1))
            scan == ScanAttrs(s, e, "before", <<>>, <<>>)
        IN IF scan.gt = 0 THEN <<>>
           ELSE <<EndToken(name)>> \o Tokenize(s, scan.gt + 1)
    ELSE IF i + 2 <= Len(s) /\ s[i + 1] = "/" /\ s[i + 2] = ">" THEN
        Tokenize(s, i + 3)
    ELSE IF i + 2 <= Len(s) /\ s[i + 1] = "/" THEN
        Tokenize(s, BogusCommentEnd(s, i + 2))
    ELSE IF MatchesAt(s, i, <<"<", "!", "-", "-">>) THEN
        Tokenize(s, CommentEnd(s, i))
    ELSE IF i + 1 <= Len(s) /\ s[i + 1] \in {"!", "?"} THEN
        Tokenize(s, BogusCommentEnd(s, i + 1))
    ELSE <<TextToken(<<"<">>)>> \o Tokenize(s, i + 1)

-----------------------------------------------------------------------------
(* DOMParser.parseFromString, second half: tree construction.  The tree    *)
(* builder is the one of a document without doctype (quirks mode).  Its    *)
(* vocabulary is: p div ul ol li blockquote h1-h6, b i em strong u a,     *)
(* span, br img, table tbody tr td, script style title textarea; every    *)
(* other tag name is an ordinary element.  The cases of the HTML tree      *)
(* builder left out (foster parenting, the adoption agency algorithm with  *)
(* a furthest block, reconstruction of formatting elements) set the flag   *)
(* `bad`; DocSupported states that an input stays clear of them.           *)

TextNode(data) == [type |-> "text", data |-> data]

Element(tag, attrs, kids) == [type |-> "elem", tag |-> tag, attrs |-> attrs, kids |-> kids]

Str_p == <<"p">>

Str_li == <<"l","i">>

Str_a == <<"a">>

Str_br == <<"b","r">>

Str_div == <<"d","i","v">>

Str_body == <<"b","o","d","y">>

Str_table == <<"t","a","b","l","e">>

Str_tbody == <<"t","b","o","d","y">>

Str_tr == <<"t","r">>

Str_td == <<"t","d">>

HeadingTags == {<<"h","1">>, <<"h","2">>, <<"h","3">>, <<"h","4">>, <<"h","5">>, <<"h","6">>}

\* start tags that close an open p element
BlockTags == {Str_p, Str_div, <<"u","l">>, <<"o","l">>,
              <<"b","l","o","c","k","q","u","o","t","e">>}

FormattingTags == {<<"b">>, <<"i">>, <<"e","m">>, <<"s","t","r","o","n","g">>,
                   <<"u">>, Str_a}

VoidTags == {Str_br, <<"i","m","g">>}

TableTags == {Str_table, Str_tbody, Str_tr, Str_td}

IgnoredTags == {Str_body, <<"h","t","m","l">>, <<"h","e","a","d">>}

\* the elements of the "special" category
SpecialTags == BlockTags \cup HeadingTags \cup VoidTags \cup TableTags
                 \cup RawTextTags \cup RcdataTags \cup {Str_li, Str_body}

Frame(name, attrs) == [name |-> name, attrs |-> attrs, kids |-> <<>>]

Top(stack) == stack[Len(stack)]

\* append a node to the current node
AddChild(stack, node) ==
    [stack EXCEPT ![Len(stack)].kids = Append(@, node)]

\* insert characters: they extend the text node that ends the current node
AddText(stack, data) ==
    LET kids == Top(stack).kids
    IN IF kids # <<>> /\ Last(kids).type = "text"
       THEN [stack EXCEPT ![Len(stack)].kids =
                [@ EXCEPT ![Len(kids)].data = @ \o data]]
       ELSE AddChild(stack, TextNode(data))

Push(stack, name, attrs) == Append(stack, Frame(name, attrs))

\* pop the current node: it becomes the last child of the node below
Pop(stack) ==
    LET f == Top(stack)
    IN AddChild(Front(stack), Element(f.name, f.attrs, f.kids))

\* the index of the topmost frame with a name in `names`, searching down
\* to (not across) a frame with a name in `barriers`; 0 when there is none
RECURSIVE ScopeIndex(_, _, _, _)
ScopeIndex(stack, k, names, barriers) ==
    IF k < 1 THEN 0
    ELSE IF stack[k].name \in names THEN k
    ELSE IF stack[k].name \in barriers THEN 0
    ELSE ScopeIndex(stack, k - 1, names, barriers)

ScopeBarriers == {Str_table, Str_td}

InScope(stack, names) == ScopeIndex(stack, Len(stack), names, ScopeBarriers) # 0

InButtonScope(stack, names) == InScope(stack, names)

InListItemScope(stack, names) ==
    ScopeIndex(stack, Len(stack), names,
               ScopeBarriers \cup {<<"u","l">>, <<"o","l">>}) # 0

InTableScope(stack, names) == ScopeIndex(stack, Len(stack), names, {Str_table}) # 0

\* pop until the frame at index k has been popped
RECURSIVE PopTo(_, _)
PopTo(stack, k) == IF Len(stack) < k THEN stack ELSE PopTo(Pop(stack), k)

\* a formatting element above index k would be popped without its end tag
PopsFormatting(stack, k) ==
    \E j \in (k + 1)..Len(stack) : stack[j].name \in FormattingTags

\* state of the tree builder: the stack of open elements (the body at the
\* bottom), the phase ("head" until the body is created) and the flag
Builder(stack, mode, bad) == [stack |-> stack, mode |-> mode, bad |-> bad]

\* pop until an element named in `names` (found in scope at index k) is popped
CloseTo(b, k) ==
    Builder(PopTo(b.stack, k), b.mode, b.bad \/ PopsFormatting(b.stack, k))

CloseP(b) ==
    LET k == ScopeIndex(b.stack, Len(b.stack), {Str_p}, ScopeBarriers)
    IN IF k = 0 THEN b ELSE CloseTo(b, k)

\* the index of the li that a new li closes, or 0
RECURSIVE OpenLi(_, _)
OpenLi(stack, k) ==
    IF k < 1 THEN 0
    ELSE IF stack[k].name = Str_li THEN k
    ELSE IF stack[k].name \in SpecialTags \ {Str_div, Str_p} THEN 0
    ELSE OpenLi(stack, k - 1)

\* "any other end tag": the index of the open element it closes, or 0
RECURSIVE OtherEndIndex(_, _, _)
OtherEndIndex(stack, k, name) ==
    IF k < 1 THEN 0
    ELSE IF stack[k].name = name THEN k
    ELSE IF stack[k].name \in SpecialTags THEN 0
    ELSE OtherEndIndex(stack, k - 1, name)

InTableContext(stack) == Top(stack).name \in {Str_table, Str_tbody, Str_tr}

\* a start tag while the current node is table, tbody or tr
TableStart(b, tok) ==
    LET cur == Top(b.stack).name
        s1 == IF cur = Str_table /\ tok.name \in {Str_tr, Str_td}
              THEN Push(b.stack, Str_tbody, <<>>) ELSE b.stack
        s2 == IF Top(s1).name = Str_tbody /\ tok.name = Str_td
              THEN Push(s1, Str_tr, <<>>) ELSE s1
        fits == \/ tok.name = Str_td
                \/ tok.name = Str_tr /\ cur \in {Str_table, Str_tbody}
                \/ tok.name = Str_tbody /\ cur = Str_table
    IN IF fits THEN Builder(Push(s2, tok.name, tok.attrs), b.mode, b.bad)
       ELSE Builder(b.stack, b.mode, TRUE)

BodyStart(b, tok) ==
    LET name == tok.name IN
    IF name \in IgnoredTags THEN b
    ELSE IF InTableContext(b.stack) THEN TableStart(b, tok)
    ELSE IF name \in {Str_tbody, Str_tr, Str_td} THEN
        \* ignored in the body; inside a cell it would close the cell
        Builder(b.stack, b.mode, b.bad \/ InTableScope(b.stack, {Str_td}))
    ELSE IF name \in BlockTags \/ name = Str_table THEN
        LET c == IF name = Str_table THEN b ELSE CloseP(b)
        IN Builder(Push(c.stack, name, tok.attrs), c.mode, c.bad)
    ELSE IF name \in HeadingTags THEN
        LET c == CloseP(b)
            st == IF Top(c.stack).name \in HeadingTags THEN Pop(c.stack) ELSE c.stack
        IN Builder(Push(st, name, tok.attrs), c.mode, c.bad)
    ELSE IF name = Str_li THEN
        LET k == OpenLi(b.stack, Len(b.stack))
            c == CloseP(IF k = 0 THEN b ELSE CloseTo(b, k))
        IN Builder(Push(c.stack, name, tok.attrs), c.mode, c.bad)
    ELSE IF name \in VoidTags THEN
        Builder(AddChild(b.stack, Element(name, tok.attrs, <<>>)), b.mode, b.bad)
    ELSE IF name = Str_a THEN
        Builder(Push(b.stack, name, tok.attrs), b.mode,
                b.bad \/ \E k \in 1..Len(b.stack) : b.stack[k].name = Str_a)
    ELSE Builder(Push(b.stack, name, tok.attrs), b.mode, b.bad)

BodyEnd(b, tok) ==
    LET name == tok.name
        stack == b.stack
    IN
    IF name \in IgnoredTags THEN b
    ELSE IF name = Str_p THEN
        IF InButtonScope(stack, {Str_p}) THEN CloseP(b)
        ELSE Builder(AddChild(stack, Element(Str_p, <<>>, <<>>)), b.mode, b.bad)
    ELSE IF name = Str_br THEN
        Builder(AddChild(stack, Element(Str_br, <<>>, <<>>)), b.mode, b.bad)
    ELSE IF name = Str_li THEN
        IF InListItemScope(stack, {Str_li})
        THEN CloseTo(b, ScopeIndex(stack, Len(stack), {Str_li},
                                   ScopeBarriers \cup {<<"u","l">>, <<"o","l">>}))
        ELSE b
    ELSE IF name \in BlockTags THEN
        IF InScope(stack, {name})
        THEN CloseTo(b, ScopeIndex(stack, Len(stack), {name}, ScopeBarriers))
        ELSE b
    ELSE IF name \in HeadingTags THEN
        IF InScope(stack, HeadingTags)
        THEN CloseTo(b, ScopeIndex(stack, Len(stack), HeadingTags, ScopeBarriers))
        ELSE b
    ELSE IF name \in TableTags THEN
        IF InTableScope(stack, {name})
        THEN CloseTo(b, ScopeIndex(stack, Len(stack), {name}, {Str_table}))
        ELSE b
    ELSE IF name \in FormattingTags THEN
        LET k == ScopeIndex(stack, Len(stack), {name}, {})
        IN IF k = 0 \/ ~InScope(stack, {name}) THEN b
           ELSE IF \E j \in (k + 1)..Len(stack) : stack[j].name \in SpecialTags
           THEN Builder(stack, b.mode, TRUE)
           ELSE Builder(PopTo(stack, k), b.mode,
                        b.bad \/ \E j \in (k + 1)..Len(stack) :
                                     stack[j].name \in FormattingTags)
    ELSE LET k == OtherEndIndex(stack, Len(stack), name)
         IN IF k = 0 THEN b ELSE CloseTo(b, k)

\* the index after the raw text element opened by the start tag at k
AfterRawElement(toks, k) ==
    LET e == IF k + 1 <= Len(toks) /\ toks[k + 1].t = "text" THEN k + 2 ELSE k + 1
    IN IF e <= Len(toks) /\ toks[e].t = "end" /\ toks[e].name = toks[k].name
       THEN e + 1 ELSE e

RECURSIVE Build(_, _, _)
Build(toks, k, b) ==
    IF k > Len(toks) THEN b
    ELSE LET tok == toks[k] IN
    IF b.mode = "head" THEN
        \* before the body exists: white space is dropped, script, style
        \* and title go to the head, other end tags are ignored
        IF tok.t = "text" /\ IndexOfNone(tok.data, 1, SpaceChars) > Len(tok.data)
        THEN Build(toks, k + 1, b)
        ELSE IF tok.t = "text"
        THEN Build(toks, k + 1,
                   Builder(AddText(b.stack,
                                   SubSeq(tok.data, IndexOfNone(tok.data, 1, SpaceChars),
                                          Len(tok.data))),
                           "body", b.bad))
        ELSE IF tok.t = "start" /\ tok.name \in RawTextTags \cup {Str_title}
        THEN Build(toks, AfterRawElement(toks, k), b)
        ELSE IF tok.t = "start" /\ tok.name = <<"h","e","a","d">>
        THEN Build(toks, k + 1, b)
        ELSE IF tok.t = "end" /\ tok.name \notin {Str_body, <<"h","t","m","l">>, Str_br}
        THEN Build(toks, k + 1, b)
        ELSE Build(toks, k, Builder(b.stack, "body", b.bad))
    ELSE IF tok.t = "text" THEN
        Build(toks, k + 1,
              Builder(AddText(b.stack, tok.data), b.mode,
                      b.bad \/ InTableContext(b.stack)))
    ELSE IF tok.t = "start" THEN Build(toks, k + 1, BodyStart(b, tok))
    ELSE Build(toks, k + 1, BodyEnd(b, tok))

BuilderOf(s) ==
    Build(Tokenize(s, 1), 1, Builder(<<Frame(Str_body, <<>>)>>, "head", FALSE))

\* the document is within the modelled part of the tree builder
DocSupported(s) == ~BuilderOf(s).bad

\* doc.body of parseFromString(s, 'text/html')
ParseBody(s) ==
    LET b == BuilderOf(s)
        closed == PopTo(b.stack, 2)
    IN Element(Str_body, <<>>, closed[1].kids)

-----------------------------------------------------------------------------
(* Element.innerHTML (getter): the HTML fragment serialization             *)

EscapeOf(c) ==
    CASE c = "&" -> <<"&","a","m","p",";">>
      [] c = "<" -> <<"&","l","t",";">>
      [] c = ">" -> <<"&","g","t",";">>
      [] c = "\"" -> <<"&","q","u","o","t",";">>

\* data from index i with the characters of `set` escaped
RECURSIVE EscapeFrom(_, _, _)
EscapeFrom(data, i, set) ==
    LET j == IndexOfAny(data, i, set)
    IN IF j > Len(data) THEN SubSeq(data, i, Len(data))
       ELSE SubSeq(data, i, j - 1) \o EscapeOf(data[j]) \o EscapeFrom(data, j + 1, set)

EscapeText(data) == EscapeFrom(data, 1, {"&", "<", ">"})

EscapeAttr(value) == EscapeFrom(value, 1, {"&", "\""})

SerializeAttrs(attrs) ==
    Flatten([k \in 1..Len(attrs) |->
        <<" ">> \o attrs[k].name \o <<"=", "\"">> \o EscapeAttr(attrs[k].value)
            \o <<"\"">>])

RECURSIVE SerializeNodes(_, _)
SerializeNode(node, parentTag) ==
    IF node.type = "text"
    THEN IF parentTag \in RawTextTags THEN node.data ELSE EscapeText(node.data)
    ELSE <<"<">> \o node.tag \o SerializeAttrs(node.attrs) \o <<">">>
         \o (IF node.tag \in VoidTags THEN <<>>
             ELSE SerializeNodes(node.kids, node.tag) \o <<"<", "/">> \o node.tag
                      \o <<">">>)

SerializeNodes(nodes, parentTag) ==
    IF nodes = <<>> THEN <<>>
    ELSE SerializeNode(Head(nodes), parentTag) \o SerializeNodes(Tail(nodes), parentTag)

innerHTML(element) == SerializeNodes(element.kids, element.tag)

-----------------------------------------------------------------------------
(* sanitizer.js: isAttributeValueSafe, cleanNode, sanitize                 *)

RECURSIVE TrimLeft(_)
TrimLeft(s) == IF s # <<>> /\ IsSpace(Head(s)) THEN TrimLeft(Tail(s)) ELSE s

isAttributeValueSafe(attr, value) ==
    IF value = <<>> THEN TRUE
    ELSE LET lowerValue == TrimLeft(LowerCase(value))
         IN ~\E scheme \in {JavascriptScheme, DataScheme, VbscriptScheme} :
                MatchesAt(lowerValue, 1, scheme)

\* mutant: every attribute of the element is copied
CopiedAttrs_All(child, tagName) == child.attrs

\* the attributes cleanNode copies to the clean element
CopiedAttrs(child, tagName) ==
    LET allowedAttrs == ALLOWED_ATTRIBUTES(tagName)
        value(attr) == (CHOOSE a \in {child.attrs[k] : k \in 1..Len(child.attrs)} :
                            a.name = attr).value
        has(attr) == \E k \in 1..Len(child.attrs) : child.attrs[k].name = attr
    IN Flatten([k \in 1..Len(allowedAttrs) |->
            IF has(allowedAttrs[k]) /\ isAttributeValueSafe(allowedAttrs[k],
                                                            value(allowedAttrs[k]))
            THEN <<[name |-> allowedAttrs[k], value |-> value(allowedAttrs[k])]>>
            ELSE <<>>])

\* mutant: the tag test lets every tag through
IsAllowedTag_Any(tagName) == TRUE

\* mutant: the tag test is a block list of script and style
IsAllowedTag_BlockList(tagName) == tagName \notin {Str_script, Str_style}

\* the test of the allowed-tag branch
IsAllowedTag(tagName) == tagName \in ALLOWED_TAGS

\* what cleanNode appends to the fragment for the cleaned children of a
\* disallowed element: the node that the recursive call returned
UnwrappedChildren(cleanChildren) == <<cleanChildren>>

\* what cleanNode appends to the clean element of an allowed tag
ReattachedChildren(cleanChildren) == <<cleanChildren>>

\* cleanNode returns the container div it created, the fragment's nodes
\* in it
RECURSIVE cleanNode(_)
cleanNode(node) ==
    LET clean(child) ==
            IF child.type = "text" THEN <<TextNode(child.data)>>
            ELSE IF IsAllowedTag(child.tag)
            THEN <<Element(child.tag, CopiedAttrs(child, child.tag),
                           ReattachedChildren(cleanNode(child)))>>
            ELSE UnwrappedChildren(cleanNode(child))
    IN Element(Str_div, <<>>, Flatten([k \in 1..Len(node.kids) |-> clean(node.kids[k])]))

\* JavaScript values given to sanitize
JsString(s) == [type |-> "string", str |-> s, num |-> 0]

JsNumber(n) == [type |-> "number", str |-> <<>>, num |-> n]

JsNull == [type |-> "null", str |-> <<>>, num |-> 0]

JsUndefined == [type |-> "undefined", str |-> <<>>, num |-> 0]

Truthy(v) ==
    CASE v.type = "string" -> v.str # <<>>
      [] v.type = "number" -> v.num # 0
      [] OTHER -> FALSE

\* mutant: the guard without the typeof test
EarlyReturn_FalsyOnly(html) == ~Truthy(html)

\* if (!html || typeof html !== 'string') return '';
EarlyReturn(html) == ~Truthy(html) \/ html.type # "string"

\* the rest of sanitize; String.prototype.replace exists on strings only
SanitizeString(html) ==
    IF html.type # "string" THEN Err("TypeError")
    ELSE LET cleaned == PreFilter(html.str)
             cleanedBody == cleanNode(ParseBody(cleaned))
         IN Ok(innerHTML(cleanedBody))

sanitize(html) == IF EarlyReturn(html) THEN Ok(<<>>) ELSE SanitizeString(html)

-----------------------------------------------------------------------------
(* The codec run: compress a text, then decompress the token.              *)

\* code units given to compress: "A", "+", "/", "=", U+00E9, U+20AC, the
\* surrogate pair of U+1F600 (D83D DE00) and U+FEFF
TextUnits == {65, 43, 47, 61, 233, 8364, 55357, 56832, 65279}

RECURSIVE SeqsUpTo(_, _)
SeqsUpTo(S, n) ==
    IF n = 0 THEN {<<>>}
    ELSE LET shorter == SeqsUpTo(S, n - 1)
         IN shorter \cup {Append(s, x) : s \in {t \in shorter : Len(t) = n - 1}, x \in S}

Texts == SeqsUpTo(TextUnits, MaxTextLen)

NoResult == [ok |-> FALSE, err |-> "pending"]

CodecIdle ==
    /\ cText = <<>>
    /\ cPc = "idle"
    /\ cToken = NoResult
    /\ cOut = NoResult
    /\ cBytes = NoResult
    /\ cStreams = 0
    /\ cTamper = "none"

SanIdle ==
    /\ sInput = [type |-> "undefined", str |-> <<>>, num |-> 0]
    /\ sPc = "idle"
    /\ sOut = NoResult
    /\ sOut2 = NoResult

NoLoad == [written |-> FALSE, hash |-> <<>>, value |-> <<>>]

\* no call of copyLink made
NoCopy == [pc |-> "idle", content |-> <<>>, url |-> <<>>, copied |-> FALSE]

\* the state object of the editor as it is declared, no timeout pending and
\* no call of saveToHash made
SaveIdle ==
    /\ isSaving = FALSE
    /\ hasUnsavedChanges = FALSE
    /\ lastSaved = "null"
    /\ timer = FALSE
    /\ savePending = <<>>
    /\ saveOutcome = "none"
    /\ copyCall = NoCopy
    /\ fresh = FALSE

\* no codec call made, no debounced function called
ConcIdle == calls = <<>>

DebIdle ==
    /\ dTimeoutId = 0
    /\ dTimers = {}
    /\ dLog = <<>>

\* the slash menu closed, the caret in the editor
SlashIdle ==
    /\ slashMenuOpen = FALSE
    /\ slashTriggered = FALSE
    /\ showTimer = FALSE
    /\ checkTimer = FALSE
    /\ selection = "caret"
    /\ caretText = <<>>
    /\ block = "paragraph"

EditorIdle ==
    /\ ePc = "idle"
    /\ supported = TRUE
    /\ hash = <<>>
    /\ editor = <<>>
    /\ loads = <<>>
    /\ statusText = "initial"
    /\ toast = "none"
    /\ lastLoad = NoLoad
    /\ historyLen = 1
    /\ SaveIdle

CodecInit ==
    /\ cText \in Texts
    /\ cPc = "start"
    /\ cToken = NoResult
    /\ cOut = NoResult
    /\ cBytes = NoResult
    /\ cStreams = 0
    /\ cTamper = "none"
    /\ SanIdle
    /\ EditorIdle
    /\ ConcIdle
    /\ DebIdle
    /\ SlashIdle

Compress ==
    /\ cPc = "start"
    /\ cToken' = compress(cText)
    /\ cStreams' = cStreams + CompressStreams(cText)
    /\ cPc' = "compressed"
    /\ UNCHANGED <<cText, cOut, cBytes, cTamper, sanVars, editorVars, concVars, debVars, slashVars>>

Decompress ==
    /\ cPc \in {"compressed", "received"}
    /\ cToken.ok
    /\ cOut' = decompress(cToken.val)
    /\ cBytes' = IF DecompressGuard(cToken.val) THEN cBytes ELSE DecodedBytes(cToken.val)
    /\ cStreams' = cStreams + DecompressStreams(cToken.val)
    /\ cPc' = "done"
    /\ UNCHANGED <<cText, cToken, cTamper, sanVars, editorVars, concVars, debVars, slashVars>>

CodecNext == Compress \/ Decompress

SpecCodec == CodecInit /\ [][CodecNext]_vars

-----------------------------------------------------------------------------
\* C1: for every string x, decompress(compress(x)) returns exactly x.
C1_RoundTrip == cPc = "done" => (cOut.ok /\ cOut.val = cText)

-----------------------------------------------------------------------------
(* The sanitizer run: sanitize an input, then sanitize the result.         *)

Piece_Paragraph ==      \* <p onclick="evil()">Hello <b>world</b></p>
    <<"<","p"," ","o","n","c","l","i","c","k","=","\"","e","v","i","l","(",")","\"",">",
      "H","e","l","l","o"," ","<","b",">","w","o","r","l","d","<","/","b",">",
      "<","/","p",">">>

Piece_Table ==          \* <table><tr><td>cell</td></tr></table>
    <<"<","t","a","b","l","e",">","<","t","r",">","<","t","d",">","c","e","l","l",
      "<","/","t","d",">","<","/","t","r",">","<","/","t","a","b","l","e",">">>

Piece_Anchor ==         \* <a href="javascript:alert(1)">text</a>
    <<"<","a"," ","h","r","e","f","=","\"","j","a","v","a","s","c","r","i","p","t",":",
      "a","l","e","r","t","(","1",")","\"",">","t","e","x","t","<","/","a",">">>

Piece_SplitScript ==    \* <scr<script>x</script>ipt>alert(1)</script>
    <<"<","s","c","r","<","s","c","r","i","p","t",">","x","<","/","s","c","r","i","p","t",">",
      "i","p","t",">","a","l","e","r","t","(","1",")","<","/","s","c","r","i","p","t",">">>

Piece_UpperScript ==    \* <SCRIPT>x</SCRIPT>
    <<"<","S","C","R","I","P","T",">","x","<","/","S","C","R","I","P","T",">">>

Piece_ScriptOpen ==     \* <script>
    <<"<","s","c","r","i","p","t",">">>

Piece_ScriptClose ==    \* </script>
    <<"<","/","s","c","r","i","p","t",">">>

Piece_EscapedScript ==  \* &lt;script&gt;
    <<"&","l","t",";","s","c","r","i","p","t","&","g","t",";">>

Piece_Href ==           \* href
    <<"h","r","e","f">>

Piece_Money ==          \* money = 5
    <<"m","o","n","e","y"," ","=" ," ","5">>

Piece_SplitScheme ==    \* javajavascript:script:
    <<"j","a","v","a","j","a","v","a","s","c","r","i","p","t",":","s","c","r","i","p","t",":">>

Piece_Image ==          \* <img src=x onerror=alert(1)>
    <<"<","i","m","g"," ","s","r","c","=","x"," ","o","n","e","r","r","o","r","=",
      "a","l","e","r","t","(","1",")",">">>

Piece_DivOpen ==        \* <div class="c">
    <<"<","d","i","v"," ","c","l","a","s","s","=","\"","c","\"",">">>

Piece_DivClose ==       \* </div>
    <<"<","/","d","i","v",">">>

Piece_List ==           \* <ul><li>a<li>b</ul>
    <<"<","u","l",">","<","l","i",">","a","<","l","i",">","b","<","/","u","l",">">>

Piece_Space ==          \* a space
    <<" ">>

Pieces ==
    { Piece_Paragraph, Piece_Table, Piece_Anchor, Piece_SplitScript,
      Piece_UpperScript, Piece_ScriptOpen, Piece_ScriptClose, Piece_EscapedScript,
      Piece_Href, Piece_Money, Piece_SplitScheme, Piece_Image, Piece_DivOpen,
      Piece_DivClose, Piece_List, Piece_Space }

\* the markup strings made of at most n pieces
RECURSIVE Joined(_)
Joined(n) ==
    IF n = 0 THEN {<<>>}
    ELSE Joined(n - 1) \cup {m \o q : m \in Joined(n - 1), q \in Pieces}

Markups == Joined(MaxPieces)

SanInputs ==
    {JsString(m) : m \in Markups} \cup {JsNull, JsUndefined, JsNumber(0), JsNumber(42)}

SanInit ==
    /\ sInput \in SanInputs
    /\ sPc = "start"
    /\ sOut = NoResult
    /\ sOut2 = NoResult
    /\ CodecIdle
    /\ EditorIdle
    /\ ConcIdle
    /\ DebIdle
    /\ SlashIdle

Sanitize ==
    /\ sPc = "start"
    /\ sOut' = sanitize(sInput)
    /\ sPc' = "done"
    /\ UNCHANGED <<sInput, sOut2, codecVars, editorVars, concVars, debVars, slashVars>>

SanitizeAgain ==
    /\ sPc = "done"
    /\ sOut.ok
    /\ sOut2' = sanitize(JsString(sOut.val))
    /\ sPc' = "again"
    /\ UNCHANGED <<sInput, sOut, codecVars, editorVars, concVars, debVars, slashVars>>

SanNext == Sanitize \/ SanitizeAgain

SpecSan == SanInit /\ [][SanNext]_vars

\* every input of the run, and every result sanitized again, is parsed
\* within the modelled part of the tree builder
SanSupported ==
    /\ sInput.type = "string" => DocSupported(PreFilter(sInput.str))
    /\ sOut.ok => DocSupported(PreFilter(sOut.val))

-----------------------------------------------------------------------------
(* Properties of the sanitizer run                                         *)

\* Node.textContent: the text of the descendants, in document order
RECURSIVE TextContent(_)
TextContent(node) ==
    IF node.type = "text" THEN node.data
    ELSE Flatten([k \in 1..Len(node.kids) |-> TextContent(node.kids[k])])

\* the tags of the elements under node
RECURSIVE TagsUnder(_)
TagsUnder(node) ==
    IF node.type = "text" THEN {}
    ELSE UNION {{node.kids[k].tag} \cup TagsUnder(node.kids[k]) :
                    k \in {j \in 1..Len(node.kids) : node.kids[j].type = "elem"}}

TagTokens(s) == LET toks == Tokenize(s, 1) IN {toks[k] : k \in 1..Len(toks)}

Lit_text == <<"t","e","x","t">>

Lit_href == <<"h","r","e","f">>

Lit_anchorOpen == <<"<","a">>

Lit_alert == <<"a","l","e","r","t","(","1",")">>

SanReturned == sPc # "start" /\ sInput.type = "string"

\* the allow-list as the claim spells it
C2_AllowList ==
    { <<"p">>, <<"b","r">>, <<"d","i","v">>, <<"s","p","a","n">>, <<"b">>,
      <<"s","t","r","o","n","g">>, <<"i">>, <<"e","m">>, <<"u">>,
      <<"h","1">>, <<"h","2">>, <<"h","3">>, <<"u","l">>, <<"o","l">>,
      <<"l","i">>, <<"b","l","o","c","k","q","u","o","t","e">> }

\* C2: every tag in the output of sanitize names an allow-listed element
\* and carries no attribute.
C2_OutputVocabulary ==
    sOut.ok =>
        \A tok \in TagTokens(sOut.val) :
            /\ tok.t \in {"start", "end"} => tok.name \in C2_AllowList
            /\ tok.t = "start" => tok.attrs = <<>>

\* an input with an attribute on an allow-listed element and with a
\* disallowed element has been sanitized
C2_Witness ==
    /\ sPc = "done"
    /\ sInput.type = "string"
    /\ \E tok \in TagTokens(PreFilter(sInput.str)) :
            tok.t = "start" /\ tok.name \in C2_AllowList /\ tok.attrs # <<>>
    /\ \E tok \in TagTokens(PreFilter(sInput.str)) :
            tok.t = "start" /\ tok.name \notin C2_AllowList /\ tok.attrs # <<>>
    /\ sOut.ok /\ sOut.val # <<>>

\* "<script" is followed, later in x, by "</script>"
HasScriptBlock(x) ==
    \E i \in 1..Len(x) :
        MatchesAt(x, i, ScriptOpen) /\ FindFrom(x, i + Len(ScriptOpen), ScriptClose) # 0

\* C4: when the input holds a <script>...</script> block, the output of
\* sanitize holds no "<script", in any letter case.
C4_NoScriptTag ==
    (SanReturned /\ HasScriptBlock(sInput.str)) =>
        (sOut.ok /\ ~Contains(sOut.val, ScriptOpen))

\* the pre-filter left a script element in the body, and its text is in
\* the output
C4_Witness ==
    /\ sPc = "done"
    /\ sInput.type = "string"
    /\ HasScriptBlock(sInput.str)
    /\ Str_script \in TagsUnder(ParseBody(PreFilter(sInput.str)))
    /\ sOut.ok /\ Contains(sOut.val, Lit_alert)

\* C5 as stated: for every input that holds the anchor
\* <a href="javascript:alert(1)">text</a>, the output holds "text" and
\* none of "href", "javascript:" and "<a".
C5_AnchorAnywhere ==
    (SanReturned /\ Contains(sInput.str, Piece_Anchor)) =>
        /\ sOut.ok
        /\ Contains(sOut.val, Lit_text)
        /\ ~Contains(sOut.val, Lit_href)
        /\ ~Contains(sOut.val, JavascriptScheme)
        /\ ~Contains(sOut.val, Lit_anchorOpen)

\* C5 amended: for every input that holds the anchor the output holds no
\* "<a"; when the anchor is the whole input, the output holds "text" and
\* neither "href" nor "javascript:".
C5_Anchor ==
    /\ (SanReturned /\ Contains(sInput.str, Piece_Anchor)) =>
            (sOut.ok /\ ~Contains(sOut.val, Lit_anchorOpen))
    /\ (sPc # "start" /\ sInput = JsString(Piece_Anchor)) =>
            /\ sOut.ok
            /\ Contains(sOut.val, Lit_text)
            /\ ~Contains(sOut.val, Lit_href)
            /\ ~Contains(sOut.val, JavascriptScheme)

C5_Witness ==
    /\ sPc = "done"
    /\ sInput = JsString(Piece_Anchor)
    /\ sOut.ok /\ Contains(sOut.val, Lit_text)

\* C6: sanitize('<p onclick="evil()">Hello <b>world</b></p>') is exactly
\* '<p>Hello <b>world</b></p>'.
C6_ParagraphExample ==
    (sPc # "start" /\ sInput = JsString(Piece_Paragraph)) =>
        sOut = Ok(<<"<","p",">","H","e","l","l","o"," ","<","b",">","w","o","r","l","d",
                    "<","/","b",">","<","/","p",">">>)

\* C7: a disallowed element is replaced by its cleaned children, nothing
\* standing in for it: a document with no allow-listed element comes out
\* as its text alone, and the table example comes out as 'cell'.
C7_Unwrap ==
    SanReturned =>
        LET doc == ParseBody(PreFilter(sInput.str))
        IN /\ sInput.str = Piece_Table => sOut = Ok(<<"c","e","l","l">>)
           /\ TagsUnder(doc) \cap C2_AllowList = {} =>
                  sOut = Ok(EscapeText(TextContent(doc)))

\* C8: sanitize(sanitize(x)) = sanitize(x).
C8_Idempotent == sPc = "again" => sOut2 = sOut

\* C9: the text content of the output of sanitize is the text content of
\* the input document.
C9_TextPreserved ==
    SanReturned =>
        /\ sOut.ok
        /\ TextContent(ParseBody(sOut.val)) = TextContent(ParseBody(sInput.str))

\* C10: sanitize returns a string for every input, and the empty string
\* for the empty string, null and undefined.
C10_NeverRaises ==
    /\ sPc # "start" =>
            /\ sOut.ok
            /\ sInput \in {JsString(<<>>), JsNull, JsUndefined} => sOut.val = <<>>
    /\ sPc = "again" => sOut2.ok

\* a value that is neither a string nor falsy has been sanitized
C10_Witness ==
    /\ sPc = "done"
    /\ sInput.type = "number" /\ Truthy(sInput)
    /\ sOut = Ok(<<>>)

-----------------------------------------------------------------------------
(* The editor application: initEditor, the hashchange listener and         *)
(* loadFromHash.  editor is the markup assigned to editor.innerHTML; the   *)
(* fragment is a token, the decompressed content is a sequence of code     *)
(* units, and the sanitizer works on characters.                           *)

MaxLoads == 2        \* most loadFromHash calls that await decompress at once

MaxHistory == 2      \* most entries of the session history

\* the printable ASCII characters, code units 32..126, in order (the grave
\* accent, which a string cannot hold, under the name of its code unit)
Ascii ==
    <<
      " ","!","\"","#","$","%","&","'","(",")","*","+",",","-",".","/",
      "0","1","2","3","4","5","6","7","8","9",":",";","<","=",">","?",
      "@","A","B","C","D","E","F","G","H","I","J","K","L","M","N","O",
      "P","Q","R","S","T","U","V","W","X","Y","Z","[","\\","]","^","_",
      "U+96","a","b","c","d","e","f","g","h","i","j","k","l","m","n","o",
      "p","q","r","s","t","u","v","w","x","y","z","{","|","}","~"
    >>

CodeOfChar(c) ==
    IF c = "\t" THEN 9
    ELSE IF c = "\n" THEN 10
    ELSE IF c = "\f" THEN 12
    ELSE IF c = "\r" THEN 13
    ELSE 31 + (CHOOSE k \in 1..Len(Ascii) : Ascii[k] = c)

CharOfCode(u) ==
    IF u \in 32..126 THEN Ascii[u - 31]
    ELSE IF u = 9 THEN "\t"
    ELSE IF u = 10 THEN "\n"
    ELSE IF u = 12 THEN "\f"
    ELSE IF u = 13 THEN "\r"
    ELSE "U+" \o ToString(u)

UnitsOf(markup) == [k \in 1..Len(markup) |-> CodeOfChar(markup[k])]

CharsOf(units) == [k \in 1..Len(units) |-> CharOfCode(units[k])]

\* the demo note of getDemoContent, cut after its first element
DemoContent ==
    <<"\n","<","h","1",">","W","e","l","c","o","m","e"," ","t","o"," ",
      "L","i","n","k","P","a","d","!","<","/","h","1",">","\n">>

\* markup a shared link can carry
FragmentMarkups ==
    { Piece_Paragraph,
      Piece_Anchor,
      Piece_Href \o Piece_SplitScript,
      Piece_Money }

Token_BadLength == <<"a","b","c","d","e">>

Token_NotGzip == <<"A","A","A","A">>

TokenOf(markup) == compress(UnitsOf(markup)).val

Fragments ==
    {<<>>, Token_BadLength, Token_NotGzip} \cup { TokenOf(m) : m \in FragmentMarkups }

RemoveAt(q, i) == [k \in 1..(Len(q) - 1) |-> IF k < i THEN q[k] ELSE q[k + 1]]

EditorInit ==
    /\ ePc = "boot"
    /\ supported \in BOOLEAN
    /\ hash \in Fragments
    /\ editor = <<>>
    /\ loads = <<>>
    /\ statusText = "initial"
    /\ toast = "none"
    /\ lastLoad = NoLoad
    /\ historyLen = 1
    /\ SaveIdle
    /\ CodecIdle
    /\ SanIdle
    /\ ConcIdle
    /\ DebIdle
    /\ SlashIdle

\* loadFromHash up to its await: the fragment is read once; an empty one
\* shows the demo note, any other one is handed to decompress
LoadFromHashBegin(h) ==
    IF h = <<>>
    THEN /\ editor' = DemoContent
         /\ loads' = loads
    ELSE /\ loads' = Append(loads, h)
         /\ editor' = editor

\* sanitize(content) of loadFromHash
SanitizedContent_Skipped(content) == Ok(content)

SanitizedContent(content) == sanitize(JsString(content))

\* mutant: the catch block is missing, a failure is taken for content
AssignedMarkup_NoCatch(sanitizedContent) ==
    [ok |-> TRUE,
     markup |-> IF sanitizedContent.ok THEN sanitizedContent.val ELSE <<"?">>]

\* what loadFromHash assigns to editor.innerHTML: the sanitized content,
\* or '' from the catch block when decompress or sanitize has thrown
AssignedMarkup(sanitizedContent) ==
    IF sanitizedContent.ok
    THEN [ok |-> TRUE, markup |-> sanitizedContent.val]
    ELSE [ok |-> FALSE, markup |-> <<>>]

SanitizedOrThrown(content) ==
    IF content.ok THEN SanitizedContent(CharsOf(content.val)) ELSE content

LoadedMarkup(h) == AssignedMarkup(SanitizedOrThrown(decompress(h)))

\* isCompressionSupported(): both stream constructors are defined
isCompressionSupported_Always == TRUE

isCompressionSupported == supported

InitEditor ==
    /\ ePc = "boot"
    /\ IF ~isCompressionSupported
       THEN /\ toast' = "unsupported"
            /\ ePc' = "unsupported"
            /\ UNCHANGED <<editor, loads>>
       ELSE /\ ePc' = "ready"
            /\ LoadFromHashBegin(hash)
            /\ toast' = toast
    /\ UNCHANGED <<supported, hash, statusText, lastLoad, historyLen, saveVars,
                   codecVars, sanVars, concVars, debVars, slashVars>>

\* the fragment changes to one of F: the user goes back or forward (the
\* number of history entries stays) or edits the address (an entry is
\* added).  The hashchange listener, when initEventListeners has
\* registered it, calls loadFromHash.
HashChangeTo(F) ==
    /\ ePc \in {"ready", "unsupported"}
    /\ \E h \in F :
        /\ h # hash
        /\ (ePc = "ready" /\ h # <<>>) => Len(loads) < MaxLoads
        /\ hash' = h
        /\ IF ePc = "ready" THEN LoadFromHashBegin(h) ELSE UNCHANGED <<editor, loads>>
    /\ \E added \in {0, 1} :
        /\ historyLen + added <= MaxHistory
        /\ historyLen' = historyLen + added
    /\ UNCHANGED <<ePc, supported, statusText, toast, lastLoad, saveVars,
                   codecVars, sanVars, concVars, debVars, slashVars>>

HashChange == HashChangeTo(Fragments)

\* decompress settles for one of the waiting loadFromHash calls, and the
\* call runs to its end
LoadFinish ==
    /\ ePc = "ready"
    /\ \E i \in 1..Len(loads) :
        \E loaded \in {LoadedMarkup(loads[i])} :
            /\ editor' = loaded.markup
            /\ statusText' = IF loaded.ok THEN "Saved" ELSE statusText
            /\ toast' = IF loaded.ok THEN toast ELSE "load-failed"
            /\ lastLoad' = [written |-> TRUE, hash |-> loads[i], value |-> loaded.markup]
            /\ loads' = RemoveAt(loads, i)
    /\ UNCHANGED <<ePc, supported, hash, historyLen, saveVars, codecVars, sanVars, concVars, debVars, slashVars>>

Next == InitEditor \/ HashChange \/ LoadFinish

Spec == EditorInit /\ [][Next]_vars

-----------------------------------------------------------------------------
(* Claims on the load path                                                 *)

\* the markup the last load write must carry: sanitize applied to
\* decompress of the fragment the call read, '' when either fails
ExpectedLoad(h) ==
    LET d == decompress(h)
    IN  IF ~d.ok THEN <<>>
        ELSE LET r == sanitize(JsString(CharsOf(d.val)))
             IN  IF r.ok THEN r.val ELSE <<>>

\* C3: whatever a load from a non-empty fragment writes into the editor is
\* sanitize(decompress(fragment)) and nothing else, so every tag of the
\* written markup is an allowed one and carries no attribute.
C3_LoadWritesSanitized ==
    lastLoad.written =>
        /\ lastLoad.hash # <<>>
        /\ lastLoad.value = ExpectedLoad(lastLoad.hash)
        /\ \A tok \in TagTokens(lastLoad.value) :
                /\ tok.t \in {"start", "end"} => tok.name \in ALLOWED_TAGS
                /\ tok.t = "start" => tok.attrs = <<>>
        /\ ~Contains(lastLoad.value, ScriptOpen)

\* a load has written the sanitized content of a fragment whose content
\* differs from it
C3_Witness ==
    /\ lastLoad.written
    /\ decompress(lastLoad.hash).ok
    /\ lastLoad.value # CharsOf(decompress(lastLoad.hash).val)
    /\ editor = lastLoad.value
    /\ lastLoad.value # <<>>

-----------------------------------------------------------------------------
(* A token on its way from compress to decompress: the link is shared,     *)
(* and what decompress receives may be the token, the token with one       *)
(* character replaced, cut short, or with a character added, or a string   *)
(* no call of compress produced.                                           *)

MaxTokenLen == 5    \* longest token no call of compress produced

TokenTexts ==
    { <<65>>, <<65, 47>>, <<233>>, <<8364, 65>>, <<55357, 56832>>, <<55357>>, <<65279, 65>> }

\* the characters a token may hold
TokenAlphabet == (B64Chars \ {"+", "/"}) \cup {"-", "_"}

\* characters of the token alphabet that foreign tokens are made of
ForeignChars == {"A", "H", "4", "z", "-", "_"}

ForeignTokens == SeqsUpTo(ForeignChars, MaxTokenLen) \ {<<>>}

\* characters that are not in the token alphabet
AddedChars == {" ", "\n", "%", "=", "+", "!"}

InsertAt(t, i, c) == SubSeq(t, 1, i) \o <<c>> \o SubSeq(t, i + 1, Len(t))

TokenInit ==
    /\ \/ /\ cText \in TokenTexts
          /\ cPc = "start"
          /\ cToken = NoResult
          /\ cTamper = "none"
       \/ /\ cText = <<>>
          /\ cPc = "received"
          /\ cToken \in {Ok(t) : t \in ForeignTokens}
          /\ cTamper = "foreign"
    /\ cOut = NoResult
    /\ cBytes = NoResult
    /\ cStreams = 0
    /\ SanIdle
    /\ EditorIdle
    /\ ConcIdle
    /\ DebIdle
    /\ SlashIdle

ReplaceOne ==
    /\ cPc = "compressed"
    /\ \E i \in 1..Len(cToken.val) :
        \E c \in TokenAlphabet \ {cToken.val[i]} :
            cToken' = Ok([cToken.val EXCEPT ![i] = c])
    /\ cTamper' = "replaced"
    /\ cPc' = "received"
    /\ UNCHANGED <<cText, cOut, cBytes, cStreams, sanVars, editorVars, concVars, debVars, slashVars>>

Truncate ==
    /\ cPc = "compressed"
    /\ \E n \in 1..(Len(cToken.val) - 1) : cToken' = Ok(SubSeq(cToken.val, 1, n))
    /\ cTamper' = "truncated"
    /\ cPc' = "received"
    /\ UNCHANGED <<cText, cOut, cBytes, cStreams, sanVars, editorVars, concVars, debVars, slashVars>>

AddOne ==
    /\ cPc = "compressed"
    /\ \E i \in 0..Len(cToken.val) :
        \E c \in AddedChars : cToken' = Ok(InsertAt(cToken.val, i, c))
    /\ cTamper' = "added"
    /\ cPc' = "received"
    /\ UNCHANGED <<cText, cOut, cBytes, cStreams, sanVars, editorVars, concVars, debVars, slashVars>>

TokenNext == Compress \/ ReplaceOne \/ Truncate \/ AddOne \/ Decompress

SpecToken == TokenInit /\ [][TokenNext]_vars

-----------------------------------------------------------------------------
(* Claims on the codec                                                     *)

OnlyTokenAlphabet(t) == \A k \in 1..Len(t) : t[k] \in TokenAlphabet

\* the binary-to-text form of the compressed bytes of text, before compress
\* makes it URL-safe
RawBase64(text) == arrayBufferToBase64(GzipCompress(TextEncode(text)))

HasChar(s, c) == \E k \in 1..Len(s) : s[k] = c

\* C11: the token compress returns for a non-empty input holds only A-Z,
\* a-z, 0-9, "-" and "_": no "+", no "/" and no "=".
C11_TokenAlphabet ==
    (cPc # "start" /\ cPc # "idle" /\ cText # <<>>) =>
        (cToken.ok /\ cToken.val # <<>> /\ OnlyTokenAlphabet(cToken.val))

\* compress has returned a token whose binary-to-text form held "+", "/"
\* and "=" padding
C11_Witness ==
    /\ cPc = "compressed"
    /\ cText # <<>>
    /\ HasChar(RawBase64(cText), "+")
    /\ HasChar(RawBase64(cText), "/")
    /\ HasChar(RawBase64(cText), "=")
    /\ cToken.ok

\* C12: for a non-empty token of token-alphabet characters, of any length,
\* the decoding steps of decompress (alphabet restored, padding added,
\* atob) give bytes and do not throw.
C12_DecodesEveryLength ==
    (cPc = "done" /\ cToken.val # <<>> /\ OnlyTokenAlphabet(cToken.val)) => cBytes.ok

\* C13: decompress of a token of compress(x) with one character replaced by
\* another character of the token alphabet does not return a text other
\* than x.
C13_CorruptionNotSilent ==
    (cPc = "done" /\ cTamper = "replaced") => (cOut.ok => cOut.val = cText)

\* every character of the base64 alphabets, standard and URL-safe, and the
\* padding character
AnyBase64Chars == B64Chars \cup {"-", "_", "="}

\* C14: decompress throws when the token holds a character outside the
\* binary-to-text alphabet, and when the decoded bytes are not a valid
\* compressed stream.
C14_InvalidTokenThrows ==
    (cPc = "done" /\ cToken.val # <<>>) =>
        /\ (\E k \in 1..Len(cToken.val) : cToken.val[k] \notin AnyBase64Chars) => ~cOut.ok
        /\ ~cBytes.ok => ~cOut.ok
        /\ (cBytes.ok /\ ~GzipDecompress(cBytes.val).ok) => ~cOut.ok

\* C15: compress('') and decompress('') return '' and create no stream.
C15_EmptyShortCircuit ==
    /\ (cPc \in {"compressed", "done"} /\ cText = <<>> /\ cTamper = "none") =>
            (cToken = Ok(<<>>) /\ cStreams = 0)
    /\ (cPc = "done" /\ cToken.val = <<>>) => (cOut = Ok(<<>>) /\ cStreams = 0)

\* compress and then decompress have returned for the empty string, and no
\* stream was created
C15_Witness ==
    /\ cPc = "done"
    /\ cText = <<>>
    /\ cToken = Ok(<<>>)
    /\ cOut = Ok(<<>>)
    /\ cStreams = 0

\* a step in which loadFromHash is called and reads an empty fragment:
\* initEditor, or the hashchange listener
LoadBeginsEmpty ==
    \/ ePc = "boot" /\ ePc' = "ready" /\ hash = <<>>
    \/ ePc = "ready" /\ hash' # hash /\ hash' = <<>> /\ saveOutcome' = saveOutcome
          /\ savePending' = savePending

\* C16: when loadFromHash reads an empty fragment it does not call
\* decompress, and the editing surface is left holding an empty document.
C16_EmptyFragmentEmptySurface ==
    [][LoadBeginsEmpty => (loads' = loads /\ editor' = <<>>)]_vars

\* a step in which a loadFromHash call ends whose decompress has thrown
LoadEndsFailed ==
    /\ Len(loads') = Len(loads) - 1
    /\ lastLoad'.written
    /\ ~decompress(lastLoad'.hash).ok

\* C17: when decompress fails during loadFromHash the failure is caught:
\* the user is told, the editing surface is emptied, and the editor goes on.
C17_LoadFailureHandled ==
    [][LoadEndsFailed =>
            (editor' = <<>> /\ toast' = "load-failed" /\ ePc' = "ready")]_vars

\* a load of an invalid token has ended, after a load that had put content
\* in the editing surface
C17_Witness ==
    /\ lastLoad.written
    /\ ~decompress(lastLoad.hash).ok
    /\ statusText = "Saved"
    /\ editor = <<>>
    /\ toast = "load-failed"

-----------------------------------------------------------------------------
(* The editing session: input events, the debounced save, saveToHash.      *)
(* `editor` is editor.innerHTML as saveToHash reads it, `timer` is the     *)
(* timeout of the debounced save, `savePending` holds the content of the   *)
(* saveToHash call that awaits compress, `saveOutcome` records how the     *)
(* last saveToHash call ended.                                             *)

Markup_Hello == <<"<","p",">","H","i","<","/","p",">">>

Markup_Blank == <<"<","p",">"," ","<","/","p",">">>

\* what the user can leave in the editing surface with one input event
TypedMarkups == {<<>>, Markup_Hello, Markup_Blank}

\* the fragments a navigation of the session can bring
SessionFragments == {<<>>, Token_NotGzip, TokenOf(Piece_Money)}

RECURSIVE TrimRight(_)
TrimRight(s) == IF s # <<>> /\ IsSpace(Last(s)) THEN TrimRight(Front(s)) ELSE s

\* String.prototype.trim
Trim(s) == TrimRight(TrimLeft(s))

\* isEmpty(html): no markup at all, or markup whose text is only whitespace
isEmpty(html) ==
    IF html = <<>> THEN TRUE
    ELSE Len(Trim(TextContent(ParseBody(html)))) = 0

\* history.replaceState: the current entry is rewritten, none is added
PushState(len) == len + 1

ReplaceState(len) == len

SessionInit ==
    /\ ePc = "boot"
    /\ supported \in BOOLEAN
    /\ hash \in SessionFragments
    /\ editor = <<>>
    /\ loads = <<>>
    /\ statusText = "initial"
    /\ toast = "none"
    /\ lastLoad = NoLoad
    /\ historyLen = 1
    /\ SaveIdle
    /\ CodecIdle
    /\ SanIdle
    /\ ConcIdle
    /\ DebIdle
    /\ SlashIdle

SessionHashChange == HashChangeTo(SessionFragments)

\* the input listener of initEventListeners: the user has changed the
\* content; debouncedSave clears the pending timeout and sets a new one
Input ==
    /\ ePc = "ready"
    /\ \E m \in TypedMarkups :
        /\ m # editor
        /\ editor' = m
    /\ hasUnsavedChanges' = TRUE
    /\ statusText' = "Saving..."
    /\ timer' = TRUE
    /\ fresh' = FALSE
    /\ UNCHANGED <<ePc, supported, hash, loads, toast, lastLoad, historyLen,
                   isSaving, lastSaved, savePending, saveOutcome, copyCall,
                   codecVars, sanVars, concVars, debVars, slashVars>>

\* mutant: the guard is not released when compress has thrown
IsSavingAfter_StuckOnError(path) == path = "failed"

\* state.isSaving at the end of a saveToHash call that had set it, by the
\* path the call took: "empty", "written" or "failed"
IsSavingAfter(path) == FALSE

\* saveToHash up to its await, called with the content of the editing
\* surface: a call made while another one is in flight returns at once,
\* empty content removes the fragment, any other content goes to compress
SaveToHashBegin(content) ==
    IF isSaving
    THEN UNCHANGED <<hash, historyLen, isSaving, hasUnsavedChanges, statusText,
                     savePending, saveOutcome>>
    ELSE IF isEmpty(content)
    THEN /\ hash' = <<>>
         /\ historyLen' = ReplaceState(historyLen)
         /\ hasUnsavedChanges' = FALSE
         /\ statusText' = "Saved"
         /\ isSaving' = IsSavingAfter("empty")
         /\ savePending' = savePending
         /\ saveOutcome' = "cleared"
    ELSE /\ isSaving' = TRUE
         /\ statusText' = "Saving..."
         /\ savePending' = <<content>>
         /\ UNCHANGED <<hash, historyLen, hasUnsavedChanges, saveOutcome>>

\* the timeout of the debounced save expires and saveToHash is called
TimerFire ==
    /\ ePc = "ready"
    /\ timer
    /\ timer' = FALSE
    /\ SaveToHashBegin(editor)
    /\ UNCHANGED <<ePc, supported, editor, loads, toast, lastLoad, lastSaved,
                   copyCall, fresh,
                   codecVars, sanVars, concVars, debVars, slashVars>>

\* what compress settles with inside saveToHash: its token, or the error
\* it throws when the host's stream fails
CompressOutcomes(content) ==
    {compress(UnitsOf(content)), Err("Failed to compress content")}

\* mutant: the fragment is written whether or not compress has thrown
SavedFragment_Unchecked(compressed, fragment) ==
    IF compressed.ok THEN compressed.val
    ELSE <<"u","n","d","e","f","i","n","e","d">>

\* the fragment after the await of saveToHash: replaceState writes the
\* token; when compress has thrown, the catch block is entered before it
SavedFragment(compressed, fragment) ==
    IF compressed.ok THEN compressed.val ELSE fragment

\* compress settles and saveToHash runs to its end; a copyLink call that
\* awaited it goes on and reads window.location.href
SaveFinish ==
    /\ ePc = "ready"
    /\ savePending # <<>>
    /\ \E compressed \in CompressOutcomes(savePending[1]) :
        /\ hash' = SavedFragment(compressed, hash)
        /\ IF compressed.ok
           THEN /\ historyLen' = ReplaceState(historyLen)
                /\ hasUnsavedChanges' = FALSE
                /\ lastSaved' = "date"
                /\ statusText' = "Saved"
                /\ toast' = toast
                /\ saveOutcome' = "written"
           ELSE /\ statusText' = "Error"
                /\ toast' = "save-failed"
                /\ saveOutcome' = "failed"
                /\ UNCHANGED <<historyLen, hasUnsavedChanges, lastSaved>>
    /\ isSaving' = IsSavingAfter(saveOutcome')
    /\ savePending' = <<>>
    /\ copyCall' = IF copyCall.pc = "saving"
                   THEN [copyCall EXCEPT !.pc = "copying", !.url = hash']
                   ELSE copyCall
    /\ UNCHANGED <<ePc, supported, editor, loads, lastLoad, timer, fresh,
                   codecVars, sanVars, concVars, debVars, slashVars>>

SessionNext ==
    InitEditor \/ SessionHashChange \/ LoadFinish \/ Input \/ TimerFire \/ SaveFinish

SpecSession == SessionInit /\ [][SessionNext]_vars

-----------------------------------------------------------------------------
(* Claims on the save path                                                 *)

\* a step in which a saveToHash call reaches its await of compress
SaveBegins == savePending = <<>> /\ savePending' # <<>>

\* a step in which a saveToHash call ends whose compress has thrown
SaveEndsFailed ==
    /\ savePending # <<>>
    /\ savePending' = <<>>
    /\ saveOutcome' = "failed"

\* C18: when compress fails during saveToHash, neither the start of the
\* save nor its failure writes the fragment, the user is told the save
\* failed, and hasUnsavedChanges is not cleared.
C18_SaveFailureKeepsFragment ==
    [][/\ SaveBegins => hash' = hash
       /\ SaveEndsFailed =>
            /\ hash' = hash
            /\ toast' = "save-failed"
            /\ statusText' = "Error"
            /\ hasUnsavedChanges' = hasUnsavedChanges]_vars

\* a save of typed content has failed over a fragment that held a token:
\* the token is still there and the changes still count as unsaved
C18_Witness ==
    /\ saveOutcome = "failed"
    /\ toast = "save-failed"
    /\ statusText = "Error"
    /\ hasUnsavedChanges
    /\ ~isSaving
    /\ hash = TokenOf(Piece_Money)

\* C19: the capability probe is fatal.  When isCompressionSupported() is
\* false, initEditor never gets past the probe: the listeners are not
\* registered (no input is handled, no timeout set, no hashchange load
\* started), no load from the fragment happens, no saveToHash call is made
\* or ended, and the editing surface is never written.
C19_ProbeFatal ==
    ~supported =>
        /\ ePc \in {"boot", "unsupported"}
        /\ editor = <<>>
        /\ loads = <<>>
        /\ ~lastLoad.written
        /\ ~timer
        /\ ~hasUnsavedChanges
        /\ ~isSaving
        /\ savePending = <<>>
        /\ saveOutcome = "none"
        /\ lastSaved = "null"
        /\ statusText = "initial"

\* initEditor has refused to start, and the user has since gone to a
\* fragment that holds a note
C19_Witness ==
    /\ ~supported
    /\ ePc = "unsupported"
    /\ toast = "unsupported"
    /\ hash = TokenOf(Piece_Money)
    /\ historyLen = 2
    /\ editor = <<>>

\* C20: every save writes the fragment by replacing the current history
\* entry: no step of saveToHash, with empty or non-empty content, changes
\* the number of entries of the session history.
C20_SavesReplaceEntry ==
    [][(TimerFire \/ SaveFinish) => historyLen' = historyLen]_vars

\* a save of content has written a token, a later save of empty content
\* has removed the fragment, and the history still has its one entry
C20_Witness ==
    /\ lastSaved = "date"
    /\ saveOutcome = "cleared"
    /\ hash = <<>>
    /\ ~hasUnsavedChanges
    /\ historyLen = 1

-----------------------------------------------------------------------------
(* Concurrent calls of the codec.  compress and decompress are async       *)
(* functions: a call runs to its first await, and the calls in flight go   *)
(* on, one await at a time, in any order.  A call's data, its blob and     *)
(* its bytes are locals of the call: `local` holds the one it waits on.    *)

MaxCalls == 2       \* most codec calls made in one run

ConcTexts == {<<>>, <<65>>, <<233, 65>>}

ConcTokens ==
    {<<>>, Token_BadLength, Token_NotGzip, compress(<<65>>).val, compress(<<8364>>).val}

CodecCall(op, text, token, pc, local, result) ==
    [op |-> op, text |-> text, token |-> token, pc |-> pc, local |-> local,
     result |-> result]

\* mutant: the calls keep their data in one variable of the module, which
\* holds what the last call made has put there
CallLocal_Shared(cs, i) == cs[Len(cs)].local

\* the local of call i that its next step reads
CallLocal(cs, i) == cs[i].local

ConcInit ==
    /\ calls = <<>>
    /\ CodecIdle
    /\ SanIdle
    /\ EditorIdle
    /\ DebIdle
    /\ SlashIdle

\* compress(text) is called and runs to its first await
CallCompress ==
    /\ Len(calls) < MaxCalls
    /\ \E text \in ConcTexts :
        calls' = Append(calls,
            IF CompressGuard(text)
            THEN CodecCall("compress", text, <<>>, "returned", <<>>, Ok(<<>>))
            ELSE CodecCall("compress", text, <<>>, "blob", TextEncode(text), NoResult))
    /\ UNCHANGED <<codecVars, sanVars, editorVars, debVars, slashVars>>

\* decompress(base64) is called and runs to its await, or to the catch
\* block when atob throws
CallDecompress ==
    /\ Len(calls) < MaxCalls
    /\ \E base64 \in ConcTokens :
        calls' = Append(calls,
            IF DecompressGuard(base64)
            THEN CodecCall("decompress", <<>>, base64, "returned", <<>>, Ok(<<>>))
            ELSE IF ~DecodedBytes(base64).ok
            THEN CodecCall("decompress", <<>>, base64, "returned", <<>>,
                           Err("Failed to decompress content"))
            ELSE CodecCall("decompress", <<>>, base64, "text",
                           DecodedBytes(base64).val, NoResult))
    /\ UNCHANGED <<codecVars, sanVars, editorVars, debVars, slashVars>>

\* new Response(stream).blob() settles for a call of compress
BlobSettles ==
    /\ \E i \in 1..Len(calls) :
        /\ calls[i].pc = "blob"
        /\ calls' = [calls EXCEPT ![i].pc = "buffer",
                                  ![i].local = GzipCompress(CallLocal(calls, i))]
    /\ UNCHANGED <<codecVars, sanVars, editorVars, debVars, slashVars>>

\* compressedBlob.arrayBuffer() settles and compress returns its token
BufferSettles ==
    /\ \E i \in 1..Len(calls) :
        /\ calls[i].pc = "buffer"
        /\ calls' = [calls EXCEPT
              ![i].pc = "returned",
              ![i].local = <<>>,
              ![i].result =
                  Ok(StripPadding(ReplaceChar(ReplaceChar(
                        arrayBufferToBase64(CallLocal(calls, i)), "+", "-"), "/", "_")))]
    /\ UNCHANGED <<codecVars, sanVars, editorVars, debVars, slashVars>>

\* new Response(stream).text() settles or rejects and decompress ends
TextSettles ==
    /\ \E i \in 1..Len(calls) :
        /\ calls[i].pc = "text"
        /\ \E stream \in {GzipDecompress(CallLocal(calls, i))} :
            calls' = [calls EXCEPT
              ![i].pc = "returned",
              ![i].local = <<>>,
              ![i].result = IF stream.ok THEN Ok(ResponseText(stream.val))
                            ELSE Err("Failed to decompress content")]
    /\ UNCHANGED <<codecVars, sanVars, editorVars, debVars, slashVars>>

ConcNext == CallCompress \/ CallDecompress \/ BlobSettles \/ BufferSettles \/ TextSettles

SpecConc == ConcInit /\ [][ConcNext]_vars

\* what call i returns when it is the only call made
AloneResult(call) ==
    IF call.op = "compress" THEN compress(call.text) ELSE decompress(call.token)

\* C21: concurrent calls of compress and decompress are independent: under
\* every interleaving of the calls in flight, a call that has returned has
\* returned the result, or the error, it returns when run alone.
C21_CallsIndependent ==
    \A i \in 1..Len(calls) :
        calls[i].pc = "returned" => calls[i].result = AloneResult(calls[i])

\* a call of compress made while another call, of another text or of a
\* token, was in flight has returned before that call
C21_Witness ==
    /\ Len(calls) = 2
    /\ calls[1].pc \in {"buffer", "text"}
    /\ calls[2].op = "compress"
    /\ calls[2].pc = "returned"
    /\ calls[2].text # <<>>
    /\ calls[2].text # calls[1].text

-----------------------------------------------------------------------------
(* Further claims on the sanitizer                                         *)

\* DANGEROUS_PATTERNS[k] matches somewhere in s
PatternOccurs(k, s) == FirstPatternMatch(k, s, 1, Len(s)) # 0

\* C22: after the pre-filter pass of sanitize the string holds no
\* occurrence, in any letter case, of 'javascript:', 'data:', 'vbscript:',
\* of an 'on<word>=' assignment, or of a complete <script>...</script>
\* block, for every input string.
C22_PreFilterClean ==
    SanReturned =>
        \A k \in 1..NumPatterns : ~PatternOccurs(k, PreFilter(sInput.str))

\* the elements under node as a forest of tags, in document order; an
\* element whose tag is not in `tags` leaves its own elements in its place
RECURSIVE ElementForest(_, _)
ElementForest(node, tags) ==
    Flatten([k \in 1..Len(node.kids) |->
        IF node.kids[k].type = "text" THEN <<>>
        ELSE IF node.kids[k].tag \in tags
        THEN <<[tag |-> node.kids[k].tag,
                kids |-> ElementForest(node.kids[k], tags)]>>
        ELSE ElementForest(node.kids[k], tags)])

\* C23: the elements of the output of sanitize are exactly the allow-listed
\* elements of the parsed input, one for one, with the same tags, the same
\* nesting and the same order; no element is introduced.
C23_StructurePreserved ==
    SanReturned =>
        /\ sOut.ok
        /\ LET out == ParseBody(sOut.val)
           IN ElementForest(out, TagsUnder(out))
                = ElementForest(ParseBody(PreFilter(sInput.str)), ALLOWED_TAGS)

-----------------------------------------------------------------------------
(* dom.js: debounce(fn, delay).  The closure keeps timeoutId; the host     *)
(* keeps the timeouts that are pending, each with the callback's captured  *)
(* receiver and arguments.  dLog records the calls of the debounced        *)
(* function ("call") and the invocations of fn ("fn") in order.            *)

MaxDebounced == 3   \* most calls of the debounced function in one run

Receivers == {"editor", "window"}

Arguments == {1, 2}

DebEvent(ev, context, args) == [ev |-> ev, context |-> context, args |-> args]

\* the calls of the debounced function made so far
CallsMade == Len(SelectSeq(dLog, LAMBDA e : e.ev = "call"))

\* mutant: the pending timeout is left to run
ClearTimeout_Noop(timers, id) == timers

\* clearTimeout(timeoutId): the timeout with that id, if it is pending, is
\* cancelled
ClearTimeout(timers, id) == {t \in timers : t.id # id}

DebInit ==
    /\ DebIdle
    /\ SlashIdle
    /\ CodecIdle
    /\ SanIdle
    /\ EditorIdle
    /\ ConcIdle

\* the function debounce returned is called: clearTimeout, then setTimeout
\* with a callback that holds this and the arguments of the call
DebouncedCall ==
    /\ CallsMade < MaxDebounced
    /\ \E context \in Receivers, args \in Arguments :
        /\ dTimers' = ClearTimeout(dTimers, dTimeoutId)
                        \cup {[id |-> CallsMade + 1, context |-> context, args |-> args]}
        /\ dLog' = Append(dLog, DebEvent("call", context, args))
    /\ dTimeoutId' = CallsMade + 1
    /\ UNCHANGED <<codecVars, sanVars, editorVars, concVars, slashVars>>

\* a pending timeout expires and its callback runs fn.apply(context, args)
TimeoutExpires ==
    /\ \E t \in dTimers :
        /\ dTimers' = dTimers \ {t}
        /\ dLog' = Append(dLog, DebEvent("fn", t.context, t.args))
    /\ UNCHANGED <<dTimeoutId, codecVars, sanVars, editorVars, concVars, slashVars>>

DebNext == DebouncedCall \/ TimeoutExpires

SpecDebounce == DebInit /\ [][DebNext]_vars

\* C24: for the function debounce returns, under any sequence of calls and
\* timer expirations: at most one timeout is pending; after a call the one
\* pending timeout is that call's; fn is invoked only right after the last
\* call of a burst, with that call's receiver and arguments, and never twice
\* for one burst; and when no timeout is pending every burst has had its
\* invocation.
C24_Debounce ==
    /\ Cardinality(dTimers) <= 1
    /\ \A k \in 1..Len(dLog) :
        dLog[k].ev = "fn" =>
            /\ k > 1
            /\ dLog[k - 1] = DebEvent("call", dLog[k].context, dLog[k].args)
    /\ (dLog # <<>> /\ Last(dLog).ev = "call") =>
            dTimers = {[id |-> dTimeoutId, context |-> Last(dLog).context,
                        args |-> Last(dLog).args]}
    /\ dTimers = {} => (dLog = <<>> \/ Last(dLog).ev = "fn")

\* a burst of two calls with different receivers and arguments has ended
\* with one invocation of fn, and a second burst has begun
C24_Witness ==
    /\ Len(dLog) = 4
    /\ dLog[1].ev = "call" /\ dLog[2].ev = "call" /\ dLog[3].ev = "fn"
    /\ dLog[1].context # dLog[2].context
    /\ dLog[1].args # dLog[2].args
    /\ dLog[4].ev = "call"
    /\ Cardinality(dTimers) = 1

-----------------------------------------------------------------------------
(* The save path alone: the editor opened on a new note (no fragment, so   *)
(* no load is ever in flight), then input events, expirations of the       *)
(* debounce timeout and completions of saveToHash in any order.            *)

SaveInit ==
    /\ ePc = "boot"
    /\ supported = TRUE
    /\ hash = <<>>
    /\ editor = <<>>
    /\ loads = <<>>
    /\ statusText = "initial"
    /\ toast = "none"
    /\ lastLoad = NoLoad
    /\ historyLen = 1
    /\ SaveIdle
    /\ CodecIdle
    /\ SanIdle
    /\ ConcIdle
    /\ DebIdle
    /\ SlashIdle

SaveNext == InitEditor \/ Input \/ TimerFire \/ SaveFinish

SpecSave == SaveInit /\ [][SaveNext]_vars

\* the steps of InitEditor, of TimerFire and of SaveFinish, each told by
\* the variable only that action changes in this way
InitEditorRuns == ePc = "boot" /\ ePc' \in {"ready", "unsupported"}

TimeoutFires == timer /\ timer' = FALSE

CompressSettles == savePending # <<>> /\ savePending' = <<>>

\* the host does run initEditor, the timeout of the debounced save does
\* expire, and the compress call of saveToHash does settle
SpecSaveLive ==
    /\ SaveInit
    /\ [][SaveNext]_vars
    /\ WF_ePc(InitEditorRuns)
    /\ WF_timer(TimeoutFires)
    /\ WF_savePending(CompressSettles)

\* the fragment that encodes content: none for empty content
FragmentOf(content) == IF isEmpty(content) THEN <<>> ELSE TokenOf(content)

\* an input event has happened
AfterInput == statusText # "initial"

\* C25: in every state reached after an input event, under any interleaving
\* of input events, timer expirations and save completions,
\* hasUnsavedChanges is false only if the fragment encodes the content the
\* editor holds.
C25_SavedFlagConsistent ==
    (AfterInput /\ ~hasUnsavedChanges) => hash = FragmentOf(editor)

\* the fragment encodes what the editor holds and nothing is marked unsaved
Saved == hash = FragmentOf(editor) /\ ~hasUnsavedChanges

\* every input event sets the timeout and timeouts expire, so the input
\* events stop exactly when, from some state on, no timeout is pending
InputsStop == <>[](~timer)

\* C26: when input events have happened and stop, timers fire and no
\* compress fails, the editor reaches a state from which the fragment
\* encodes the editor's final content and hasUnsavedChanges is false.
C26_EventualSave ==
    (<>AfterInput /\ InputsStop /\ [](saveOutcome # "failed")) => <>[]Saved

\* C27: the save guard is always released.  state.isSaving is true only
\* while a saveToHash call awaits compress, and once true it becomes false
\* again, whichever path the call takes, so no later save is blocked for
\* ever.
C27_GuardReleased ==
    /\ [](isSaving => savePending # <<>>)
    /\ isSaving ~> ~isSaving

\* saveToHash has ended on each of its paths: a token was written, then
\* empty content removed the fragment, then a compress failed; the guard
\* is free
C27_Witness ==
    /\ lastSaved = "date"
    /\ hash = <<>>
    /\ saveOutcome = "failed"
    /\ ~isSaving
    /\ savePending = <<>>

-----------------------------------------------------------------------------
(* The header buttons: copyLink and newNote, on top of the save path.      *)
(* copyCall follows one copyLink call: "saving" while it awaits its        *)
(* saveToHash, "copying" once it has read window.location.href and awaits  *)
(* copyToClipboard, "done" after; content is what the editor held when the *)
(* call was made, url the fragment of the address it read.                 *)

\* the copyLink call awaits a compress of its own: there are unsaved
\* changes, no save is in flight and the content is not empty
CopyAwaitsSave == hasUnsavedChanges /\ ~isSaving /\ ~isEmpty(editor)

\* copyLink up to its first real wait: saveToHash is called when there are
\* unsaved changes; when that call returns at once the address is read
CopyLink ==
    /\ ePc = "ready"
    /\ copyCall.pc \in {"idle", "done"}
    /\ IF hasUnsavedChanges
       THEN SaveToHashBegin(editor)
       ELSE UNCHANGED <<hash, historyLen, isSaving, hasUnsavedChanges, statusText,
                        savePending, saveOutcome>>
    /\ copyCall' = IF CopyAwaitsSave
                   THEN [pc |-> "saving", content |-> editor, url |-> <<>>,
                         copied |-> FALSE]
                   ELSE [pc |-> "copying", content |-> editor, url |-> hash',
                         copied |-> FALSE]
    /\ UNCHANGED <<ePc, supported, editor, loads, toast, lastLoad, lastSaved, timer,
                   fresh, codecVars, sanVars, concVars, debVars, slashVars>>

\* copyToClipboard settles: the address read is on the clipboard, or not
CopyFinish ==
    /\ copyCall.pc = "copying"
    /\ \E success \in BOOLEAN :
        /\ copyCall' = [copyCall EXCEPT !.pc = "done", !.copied = success]
        /\ toast' = IF success THEN "copied" ELSE "copy-failed"
    /\ UNCHANGED <<ePc, supported, hash, editor, loads, statusText, lastLoad, historyLen,
                   isSaving, hasUnsavedChanges, lastSaved, timer, savePending,
                   saveOutcome, fresh, codecVars, sanVars, concVars, debVars, slashVars>>

\* newNote: with unsaved changes the user is asked and may decline
NewNote ==
    /\ ePc = "ready"
    /\ \E confirm \in BOOLEAN :
        IF hasUnsavedChanges /\ ~confirm
        THEN UNCHANGED <<editor, hash, historyLen, hasUnsavedChanges, statusText, fresh>>
        ELSE /\ editor' = <<>>
             /\ hash' = <<>>
             /\ historyLen' = ReplaceState(historyLen)
             /\ hasUnsavedChanges' = FALSE
             /\ statusText' = "Saved"
             /\ fresh' = TRUE
    /\ UNCHANGED <<ePc, supported, loads, toast, lastLoad, isSaving, lastSaved, timer,
                   savePending, saveOutcome, copyCall, codecVars, sanVars, concVars,
                   debVars, slashVars>>

NoteNext ==
    InitEditor \/ Input \/ TimerFire \/ SaveFinish \/ CopyLink \/ CopyFinish \/ NewNote

SpecNote == SaveInit /\ [][NoteNext]_vars

\* C28: copyLink copies a URL whose fragment encodes the content the editor
\* held when copyLink was invoked, in every state in which it can be
\* invoked, whether an auto-save is pending, in flight or neither (set
\* aside: the demo note of a new note, and a call after a failed compress).
C28_CopiesCurrentContent ==
    (/\ copyCall.pc = "copying"
     /\ copyCall.content # DemoContent
     /\ saveOutcome # "failed") =>
        copyCall.url = FragmentOf(copyCall.content)

\* C30: after newNote has run, and until the next input event, the editor
\* is empty, the fragment is absent and hasUnsavedChanges is false: a save
\* that was pending or in flight when newNote ran writes no token.
C30_NewNoteStaysEmpty ==
    fresh => (editor = <<>> /\ hash = <<>> /\ ~hasUnsavedChanges)

-----------------------------------------------------------------------------
(* Claims on overlapping loads                                             *)

\* what loadFromHash shows for fragment h when it is the only call
ShownFor(h) == IF h = <<>> THEN DemoContent ELSE LoadedMarkup(h).markup

\* C29: when several loadFromHash calls overlap (the initial load and
\* hashchange events), then once all of them have completed the editing
\* surface shows the content of the most recent fragment, whatever the
\* order in which their decompressions complete.
C29_LoadOrdering ==
    (ePc = "ready" /\ loads = <<>>) => editor = ShownFor(hash)

\* ---------------------------------------------------------------------------
\* The slash menu: the toolbar that "/" or a text selection opens, and the
\* commands it applies to the edited block.
\* ---------------------------------------------------------------------------

\* bound: the characters the edited block holds at most ("Hi" and two "/")
MaxTyped == 4

\* slashCommands: each action with the elements its format() puts around the
\* text, outermost first (formatBlock gives the block its tag, bold, italic
\* and underline wrap the text of a paragraph, the list commands make a list
\* of one item)
slashCommands ==
    ("paragraph"      :> << <<"p">> >>) @@
    ("heading-1"      :> << <<"h","1">> >>) @@
    ("heading-2"      :> << <<"h","2">> >>) @@
    ("heading-3"      :> << <<"h","3">> >>) @@
    ("heading-4"      :> << <<"h","4">> >>) @@
    ("bold"           :> << <<"p">>, <<"b">> >>) @@
    ("italic"         :> << <<"p">>, <<"i">> >>) @@
    ("underline"      :> << <<"p">>, <<"u">> >>) @@
    ("list-unordered" :> << <<"u","l">>, <<"l","i">> >>) @@
    ("list-ordered"   :> << <<"o","l">>, <<"l","i">> >>) @@
    ("quote"          :> << <<"b","l","o","c","k","q","u","o","t","e">> >>)

\* editor.innerHTML of a note of one block that the command action has
\* formatted and that holds text
SlashMarkup(action, text) ==
    LET tags == slashCommands[action]
        n == Len(tags)
    IN Flatten([k \in 1..n |-> <<"<">> \o tags[k] \o <<">">>])
       \o text
       \o Flatten([k \in 1..n |-> <<"<","/">> \o tags[n + 1 - k] \o <<">">>])

\* the user has typed "Hi" into a new note: the save timer runs, the menu is
\* closed, the caret is behind the text
SlashInit ==
    /\ ePc = "ready"
    /\ supported = TRUE
    /\ hash = <<>>
    /\ editor = Markup_Hello
    /\ loads = <<>>
    /\ statusText = "Saving..."
    /\ toast = "none"
    /\ lastLoad = NoLoad
    /\ historyLen = 1
    /\ isSaving = FALSE
    /\ hasUnsavedChanges = TRUE
    /\ lastSaved = "null"
    /\ timer = TRUE
    /\ savePending = <<>>
    /\ saveOutcome = "none"
    /\ copyCall = NoCopy
    /\ fresh = FALSE
    /\ CodecIdle
    /\ SanIdle
    /\ ConcIdle
    /\ DebIdle
    /\ slashMenuOpen = FALSE
    /\ slashTriggered = FALSE
    /\ showTimer = FALSE
    /\ checkTimer = FALSE
    /\ selection = "caret"
    /\ caretText = <<"H","i">>
    /\ block = "paragraph"

\* handleEditorKeydown for "/" with the caret in the text: with the menu
\* closed the trigger is set and showSlashMenu is scheduled; the key then
\* inserts the character, and the input listener of the editor runs
KeySlash ==
    /\ ePc = "ready"
    /\ selection = "caret"
    /\ Len(caretText) < MaxTyped
    /\ IF ~slashMenuOpen
       THEN /\ slashTriggered' = TRUE
            /\ showTimer' = TRUE
       ELSE UNCHANGED <<slashTriggered, showTimer>>
    /\ caretText' = Append(caretText, "/")
    /\ editor' = SlashMarkup(block, caretText')
    /\ hasUnsavedChanges' = TRUE
    /\ statusText' = "Saving..."
    /\ timer' = TRUE
    /\ fresh' = FALSE
    /\ UNCHANGED <<ePc, supported, hash, loads, toast, lastLoad, historyLen,
                   isSaving, lastSaved, savePending, saveOutcome, copyCall,
                   slashMenuOpen, checkTimer, selection, block,
                   codecVars, sanVars, concVars, debVars>>

\* the timeout of the "/" key runs showSlashMenu
ShowTimerFires ==
    /\ showTimer
    /\ showTimer' = FALSE
    /\ slashMenuOpen' = TRUE
    /\ UNCHANGED <<slashTriggered, checkTimer, selection, caretText, block,
                   codecVars, sanVars, editorVars, concVars, debVars>>

\* hideSlashMenu
hideSlashMenu ==
    /\ slashMenuOpen' = FALSE
    /\ UNCHANGED slashTriggered

\* Escape with the menu open: the keydown listeners of the editor and of the
\* document both hide the menu
KeyEscape ==
    /\ slashMenuOpen
    /\ hideSlashMenu
    /\ UNCHANGED <<showTimer, checkTimer, selection, caretText, block,
                   codecVars, sanVars, editorVars, concVars, debVars>>

\* mousedown outside the menu while it is open
MouseDownOutside ==
    /\ slashMenuOpen
    /\ hideSlashMenu
    /\ UNCHANGED <<showTimer, checkTimer, selection, caretText, block,
                   codecVars, sanVars, editorVars, concVars, debVars>>

\* the selectionchange listener, the selection having become sel: outside
\* the editor the menu is hidden unless the focus is in it; a selection of
\* text opens the toolbar unless "/" has triggered; a caret hides a menu that
\* "/" has not triggered
SelectionChange ==
    /\ ePc = "ready"
    /\ \E sel \in {"caret", "text", "outside"}, focusInMenu \in BOOLEAN :
        /\ sel = "text" => caretText # <<>>
        /\ sel # "outside" => ~focusInMenu
        /\ selection' = sel
        /\ slashMenuOpen' =
             IF sel = "outside"
             THEN (IF slashMenuOpen /\ ~focusInMenu THEN FALSE ELSE slashMenuOpen)
             ELSE IF sel = "text"
             THEN (IF ~slashTriggered THEN TRUE ELSE slashMenuOpen)
             ELSE (IF slashMenuOpen /\ ~slashTriggered THEN FALSE ELSE slashMenuOpen)
    /\ UNCHANGED <<slashTriggered, showTimer, checkTimer, caretText, block,
                   codecVars, sanVars, editorVars, concVars, debVars>>

\* Backspace in the editor: the key deletes the selected text or the
\* character before the caret; with the menu open handleEditorKeydown
\* schedules the look for the "/"; the input listener of the editor runs
KeyBackspace ==
    /\ ePc = "ready"
    /\ selection \in {"caret", "text"}
    /\ caretText # <<>>
    /\ checkTimer' = (slashMenuOpen \/ checkTimer)
    /\ caretText' = IF selection = "text" THEN <<>> ELSE Front(caretText)
    /\ selection' = "caret"
    /\ editor' = SlashMarkup(block, caretText')
    /\ hasUnsavedChanges' = TRUE
    /\ statusText' = "Saving..."
    /\ timer' = TRUE
    /\ fresh' = FALSE
    /\ UNCHANGED <<ePc, supported, hash, loads, toast, lastLoad, historyLen,
                   isSaving, lastSaved, savePending, saveOutcome, copyCall,
                   slashMenuOpen, slashTriggered, showTimer, block,
                   codecVars, sanVars, concVars, debVars>>

\* the timeout of Backspace: the menu is hidden unless the text before the
\* start of the selection ends with "/"
CheckTimerFires ==
    /\ checkTimer
    /\ checkTimer' = FALSE
    /\ \E textBefore \in (IF selection = "caret" THEN {caretText}
                          ELSE IF selection = "text" THEN {<<>>}
                          ELSE {<<>>, <<"/">>}) :
        IF textBefore # <<>> /\ Last(textBefore) = "/"
        THEN UNCHANGED <<slashMenuOpen, slashTriggered>>
        ELSE hideSlashMenu
    /\ UNCHANGED <<showTimer, selection, caretText, block,
                   codecVars, sanVars, editorVars, concVars, debVars>>

\* executeSlashCommand(action, true), from a click on a button of the menu or
\* from Enter on the active button: the menu is hidden, a trigger in force
\* deletes the selection or the character before the caret, the trigger is
\* reset, the command formats the block (bold, italic and underline need
\* selected text), the input listener runs if the content has changed, and
\* the editor takes the focus
ExecuteSlashCommand ==
    /\ ePc = "ready"
    /\ slashMenuOpen
    /\ \E action \in DOMAIN slashCommands :
        LET inEditor == selection # "outside"
            deletes == slashTriggered /\ inEditor
            text == IF ~deletes THEN caretText
                    ELSE IF selection = "text" \/ caretText = <<>> THEN <<>>
                    ELSE Front(caretText)
            sel == IF ~inEditor \/ deletes THEN "caret" ELSE selection
            inline == action \in {"bold", "italic", "underline"}
            formats == inEditor /\ (inline => (sel = "text"))
        IN /\ slashMenuOpen' = FALSE
           /\ slashTriggered' = FALSE
           /\ caretText' = text
           /\ selection' = sel
           /\ block' = IF formats THEN action ELSE block
           /\ IF SlashMarkup(block', text) # editor
              THEN /\ editor' = SlashMarkup(block', text)
                   /\ hasUnsavedChanges' = TRUE
                   /\ statusText' = "Saving..."
                   /\ timer' = TRUE
                   /\ fresh' = FALSE
              ELSE UNCHANGED <<editor, hasUnsavedChanges, statusText, timer, fresh>>
    /\ UNCHANGED <<ePc, supported, hash, loads, toast, lastLoad, historyLen,
                   isSaving, lastSaved, savePending, saveOutcome, copyCall,
                   showTimer, checkTimer,
                   codecVars, sanVars, concVars, debVars>>

SlashNext ==
    \/ KeySlash
    \/ ShowTimerFires
    \/ KeyEscape
    \/ MouseDownOutside
    \/ SelectionChange
    \/ KeyBackspace
    \/ CheckTimerFires
    \/ ExecuteSlashCommand

\* the menu and the content it edits; the save that the pending timeout
\* starts is followed under SpecSave
SpecSlash == SlashInit /\ [][SlashNext]_vars

\* ---------------------------------------------------------------------------
\* Claims on the slash menu (SpecSlash).
\* ---------------------------------------------------------------------------

\* C31: whenever the slash menu is closed, by any path (Escape, a click
\* outside, the selection leaving the editor, the "/" deleted, a command
\* executed), state.slashTriggered is false afterwards.
C31_CloseResetsTrigger ==
    [][(slashMenuOpen /\ ~slashMenuOpen') => ~slashTriggered']_vars

\* C32: every element tag the slash commands can apply is in the allow-list
\* of the sanitizer, so that for a note built with these commands, saving it
\* and loading the resulting link shows its elements again.
C32_SlashTagsSurvive ==
    LET tags == TagsUnder(ParseBody(editor))
    IN ~isEmpty(editor) =>
           /\ tags \subseteq ALLOWED_TAGS
           /\ tags \subseteq TagsUnder(ParseBody(ShownFor(FragmentOf(editor))))

=============================================================================
